---- MODULE Spec2Model ----
(***************************************************************************)
(* Model of the agentic JSONata synthesis loop                             *)
(* (src/app/api/agentic-jsonata/route.ts, its LearningSummary variant, and *)
(* the page that consumes the stream, src/app/page.tsx).                   *)
(*                                                                         *)
(* Texts (expressions, patterns) are sequences of one-character strings so *)
(* that trimming and the regular expressions of the pattern extractor are  *)
(* computed character by character.  JavaScript values are written as      *)
(* their literal text ("true", "1", "{}", "undefined", ...).  An optional  *)
(* value is a sequence of length 0 (absent) or 1 (present).                *)
(***************************************************************************)
EXTENDS Integers, Sequences, FiniteSets, TLC

(***************************************************************************)
(* Bounds                                                                  *)
(***************************************************************************)
\* largest number of candidates of one run followed: a single run evaluates
\* no more than MaxIter candidates, and each of two interleaved runs requests
\* no more than MaxIter
MaxIter == 2

\* longest list of document names explored
MaxNames == 3

\* longest expression text given to the pattern extractor alone
MaxTextLen == 6

\* largest number of records of one response followed on their way to the page
MaxRecords == 4

(***************************************************************************)
(* Examples and expression texts                                           *)
(***************************************************************************)
\* the documents {"a":1} and {"a":2}
Ex1 == [a |-> 1]

Ex2 == [a |-> 2]

Examples == {Ex1, Ex2}

ExampleLists == {<<>>, <<Ex1>>, <<Ex2>>, <<Ex1, Ex2>>, <<Ex2, Ex1>>}

\* the example sets a request may carry
TrueExampleLists == {<<>>, <<Ex1>>, <<Ex1, Ex2>>}

FalseExampleLists == {<<>>, <<Ex2>>, <<Ex2, Ex1>>}

None == <<>>

Some(v) == <<v>>

\* "a=1": true on {"a":1}, false on {"a":2}
TxtEq == <<"a", "=", "1">>

\* "x.a=1": x is absent from every example, so the comparison is false
TxtPath == <<"x", ".", "a", "=", "1">>

\* "$not(a=1)"
TxtNot == <<"$", "n", "o", "t", "(", "a", "=", "1", ")">>

\* "$x()": parses, fails when evaluated (invoking a non-function)
TxtCall == <<"$", "x", "(", ")">>

\* "a=1?true:$x()": true on {"a":1}; on {"a":2} the else branch is taken and
\* fails like "$x()"
TxtCond == <<"a", "=", "1", "?", "t", "r", "u", "e", ":", "$", "x", "(", ")">>

\* "(": does not parse
TxtParen == <<"(">>

\* "": does not parse
TxtEmpty == <<>>

\* "a": the number held by the example
TxtNum == <<"a">>

\* "a.b": no value at all
TxtUndef == <<"a", ".", "b">>

\* "'true'": the string "true"
TxtStr == <<"'", "t", "r", "u", "e", "'">>

\* "{}": an empty object
TxtObj == <<"{", "}">>

\* "null"
TxtNull == <<"n", "u", "l", "l">>

\* "true"
TxtTrue == <<"t", "r", "u", "e">>

AllTexts ==
  {TxtEq, TxtPath, TxtNot, TxtCall, TxtCond, TxtParen, TxtEmpty, TxtNum, TxtUndef,
   TxtStr, TxtObj, TxtNull, TxtTrue}

\* [a-zA-Z0-9_] restricted to the characters the texts use
IdentChars == {"a", "b", "x", "n", "o", "t", "r", "u", "e", "l", "1", "_"}

Whitespace == {" ", "\n"}

(***************************************************************************)
(* The jsonata library: jsonata(text) and expression.evaluate(example)     *)
(***************************************************************************)
\* jsonata(jsonataStr): the parse either succeeds or throws with a message
\* texts given to the example validator: "[]", "0", "''", "[a]", "{'k':a}"
\* and "a=1?a" (no value when a is not 1)
TxtArr == <<"[", "]">>
TxtZero == <<"0">>
TxtBlank == <<"'", "'">>
TxtList == <<"[", "a", "]">>
TxtPair == <<"{", "'", "k", "'", ":", "a", "}">>
TxtWhen == <<"a", "=", "1", "?", "a">>

JsonataParse(text) ==
  IF text = TxtParen THEN [ok |-> FALSE, message |-> "S0203"]
  ELSE IF text = TxtEmpty THEN [ok |-> FALSE, message |-> "S0207"]
  ELSE [ok |-> TRUE, message |-> ""]

\* expression.evaluate(example): a value, or a throw with a message
JsonataEvaluate(text, example) ==
  IF text = TxtEq
    THEN [ok |-> TRUE, value |-> IF example.a = 1 THEN "true" ELSE "false", message |-> ""]
  ELSE IF text = TxtPath THEN [ok |-> TRUE, value |-> "false", message |-> ""]
  ELSE IF text = TxtNot
    THEN [ok |-> TRUE, value |-> IF example.a = 1 THEN "false" ELSE "true", message |-> ""]
  ELSE IF text = TxtCall THEN [ok |-> FALSE, value |-> "undefined", message |-> "T1006"]
  ELSE IF text = TxtCond
    THEN IF example.a = 1
           THEN [ok |-> TRUE, value |-> "true", message |-> ""]
           ELSE [ok |-> FALSE, value |-> "undefined", message |-> "T1006"]
  ELSE IF text = TxtNum
    THEN [ok |-> TRUE, value |-> IF example.a = 1 THEN "1" ELSE "2", message |-> ""]
  ELSE IF text = TxtUndef THEN [ok |-> TRUE, value |-> "undefined", message |-> ""]
  ELSE IF text = TxtStr THEN [ok |-> TRUE, value |-> "'true'", message |-> ""]
  ELSE IF text = TxtObj THEN [ok |-> TRUE, value |-> "{}", message |-> ""]
  ELSE IF text = TxtNull THEN [ok |-> TRUE, value |-> "null", message |-> ""]
  ELSE IF text = TxtArr THEN [ok |-> TRUE, value |-> "[]", message |-> ""]
  ELSE IF text = TxtZero THEN [ok |-> TRUE, value |-> "0", message |-> ""]
  ELSE IF text = TxtBlank THEN [ok |-> TRUE, value |-> "''", message |-> ""]
  ELSE IF text = TxtList
    THEN [ok |-> TRUE, value |-> IF example.a = 1 THEN "[1]" ELSE "[2]", message |-> ""]
  ELSE IF text = TxtPair
    THEN [ok |-> TRUE, value |-> IF example.a = 1 THEN "{\"k\":1}" ELSE "{\"k\":2}",
          message |-> ""]
  ELSE IF text = TxtWhen
    THEN [ok |-> TRUE, value |-> IF example.a = 1 THEN "1" ELSE "undefined",
          message |-> ""]
  ELSE [ok |-> TRUE, value |-> "true", message |-> ""]

\* "$millis()%2=0": the value depends on the clock at the time of the call
TxtClock == <<"$", "m", "i", "l", "l", "i", "s", "(", ")", "%", "2", "=", "0">>

\* the expression calls $now, $millis or $random
ReadsClock(text) == text = TxtClock

\* what one call of expression.evaluate(example) can give: one result, or
\* any of the results the clock allows
JsonataEvaluations(text, example) ==
  IF ReadsClock(text)
    THEN {[ok |-> TRUE, value |-> v, message |-> ""] : v \in {"true", "false"}}
    ELSE {JsonataEvaluate(text, example)}

\* the expression compiled by the call before is the one evaluated
ExpressionKept(jsonataStr, expression) ==
  IF expression = <<>> THEN jsonataStr ELSE expression[1]

\* expression = jsonata(jsonataStr): compiled anew for each example of
\* each call, whatever was compiled before
ExpressionFor(jsonataStr, expression) == jsonataStr

\* JavaScript truthiness of a value
Truthy(v) == v \notin {"false", "null", "undefined", "0", "''"}

(***************************************************************************)
(* testJsonata                                                             *)
(***************************************************************************)
\* the polarity of the example is ignored
PassedOfIgnoringPolarity(output, shouldPass) == output = "true"

\* the strict check and the polarity test of one evaluated output
PassedOf(output, shouldPass) ==
  LET isTrue == output = "true"
      isFalse == output = "false"
  IN (shouldPass /\ isTrue) \/ (~shouldPass /\ isFalse)

\* the parse is not wrapped: the parser's own message is the error
ParseErrorUnwrapped(parseError) == <<"", parseError>>

\* throw new Error(`Invalid JSONata syntax: ${parseError}`): an error text is
\* the pair of its fixed prefix and the details that follow it
ParseError(parseError) == <<"Invalid JSONata syntax: ", parseError>>

\* one try around the parse and the evaluation: both report a syntax error
EvaluationErrorAsSyntax(evalError) == <<"Invalid JSONata syntax: ", evalError>>

\* throw new Error(`Evaluation failed: ${evalError}`)
EvaluationError(evalError) == <<"Evaluation failed: ", evalError>>

\* `${JSON.stringify(output)}`: a string comes out in double quotes, undefined
\* as the text undefined, the other values as their literal text
JsonStringify(output) ==
  IF output = "'true'" THEN "\"true\""
  ELSE IF output = "''" THEN "\"\""
  ELSE output

\* the strict check is left out
StrictBooleanSkipped(output) == TRUE

\* isTrue || isFalse
StrictBoolean(output) == output \in {"true", "false"}

\* a boolean of the wrong polarity is thrown as an error like the other
\* failures
OutcomeWithPolarityError(parsed, evaluated, example, shouldPass) ==
     IF ~parsed.ok
       THEN [example |-> example, passed |-> FALSE, output |-> None,
             error |-> Some(ParseError(parsed.message))]
     ELSE IF ~evaluated.ok
       THEN [example |-> example, passed |-> FALSE, output |-> None,
             error |-> Some(EvaluationError(evaluated.message))]
     ELSE IF ~StrictBoolean(evaluated.value) \/ ~PassedOf(evaluated.value, shouldPass)
       THEN [example |-> example, passed |-> FALSE, output |-> None,
             error |-> Some(<<"Expression must return exactly true or false, got: ",
                              JsonStringify(evaluated.value)>>)]
     ELSE [example |-> example, passed |-> TRUE,
           output |-> Some(evaluated.value), error |-> None]

\* what the body of the for loop makes of the parse and of the evaluation:
\* every throw is caught into the outcome
OutcomeOf(parsed, evaluated, example, shouldPass) ==
     IF ~parsed.ok
       THEN [example |-> example, passed |-> FALSE, output |-> None,
             error |-> Some(ParseError(parsed.message))]
     ELSE IF ~evaluated.ok
       THEN [example |-> example, passed |-> FALSE, output |-> None,
             error |-> Some(EvaluationError(evaluated.message))]
     ELSE IF ~StrictBoolean(evaluated.value)
       THEN [example |-> example, passed |-> FALSE, output |-> None,
             error |-> Some(<<"Expression must return exactly true or false, got: ",
                              JsonStringify(evaluated.value)>>)]
     ELSE [example |-> example, passed |-> PassedOf(evaluated.value, shouldPass),
           output |-> Some(evaluated.value), error |-> None]

\* the body of the for loop: one example
TestOne(jsonataStr, example, shouldPass) ==
  OutcomeOf(JsonataParse(jsonataStr), JsonataEvaluate(jsonataStr, example),
            example, shouldPass)

RECURSIVE testJsonataStoppingAtFailure(_, _, _)
\* the first throw leaves the for loop: the outcomes stop at the first failure
testJsonataStoppingAtFailure(jsonataStr, examples, shouldPass) ==
  IF examples = <<>> THEN <<>>
  ELSE LET first == TestOne(jsonataStr, Head(examples), shouldPass)
       IN IF first.error # None
            THEN <<first>>
            ELSE <<first>> \o testJsonataStoppingAtFailure(jsonataStr, Tail(examples), shouldPass)

\* for (const example of examples) { try {...} catch {...} }; return results
testJsonata(jsonataStr, examples, shouldPass) ==
  [i \in 1..Len(examples) |-> TestOne(jsonataStr, examples[i], shouldPass)]

(***************************************************************************)
(* extractPatternFromJsonata                                               *)
(***************************************************************************)
RECURSIVE IdentRun(_, _)
\* length of the longest run of [a-zA-Z0-9_] starting at position i
IdentRun(s, i) ==
  IF i <= Len(s) /\ s[i] \in IdentChars THEN 1 + IdentRun(s, i + 1) ELSE 0

RECURSIVE PathEnd(_, _)
\* greedy (\.[a-zA-Z0-9_]+)* from position j: the position after the match
PathEnd(s, j) ==
  IF j <= Len(s) /\ s[j] = "." /\ IdentRun(s, j + 1) >= 1
    THEN PathEnd(s, j + 1 + IdentRun(s, j + 1))
    ELSE j

\* /[a-zA-Z0-9_]+(\.[a-zA-Z0-9_]+)+/ matches at position i
PathMatchAt(s, i) ==
  /\ IdentRun(s, i) >= 1
  /\ PathEnd(s, i + IdentRun(s, i)) > i + IdentRun(s, i)

\* /\$[a-zA-Z0-9_]+\(/ matches at position i
FunctionMatchAt(s, i) ==
  /\ i <= Len(s) /\ s[i] = "$"
  /\ IdentRun(s, i + 1) >= 1
  /\ i + 1 + IdentRun(s, i + 1) <= Len(s)
  /\ s[i + 1 + IdentRun(s, i + 1)] = "("

FirstPos(S) == CHOOSE i \in S : \A j \in S : i <= j

\* jsonata.match(/[a-zA-Z0-9_]+(\.[a-zA-Z0-9_]+)+/): pathPattern[0], if any
PathPattern(jsonata) ==
  LET pathStarts == {i \in 1..Len(jsonata) : PathMatchAt(jsonata, i)}
  IN IF pathStarts # {}
       THEN LET i == FirstPos(pathStarts)
            IN Some(SubSeq(jsonata, i, PathEnd(jsonata, i + IdentRun(jsonata, i)) - 1))
       ELSE None

\* jsonata.match(/\$[a-zA-Z0-9_]+\(/): functionPattern[0].slice(0, -1), if any
FunctionPattern(jsonata) ==
  LET functionStarts == {i \in 1..Len(jsonata) : FunctionMatchAt(jsonata, i)}
  IN IF functionStarts # {}
       THEN LET i == FirstPos(functionStarts)
            IN Some(SubSeq(jsonata, i, i + IdentRun(jsonata, i + 1)))
       ELSE None

\* the function token is looked for first
extractPatternFunctionFirst(jsonata, example) ==
  IF FunctionPattern(jsonata) # None THEN FunctionPattern(jsonata)
  ELSE PathPattern(jsonata)

\* the pattern is kept only when the example has the value the text names
extractPatternUsingExample(jsonata, example) ==
  IF example.a # 1 THEN None
  ELSE IF PathPattern(jsonata) # None THEN PathPattern(jsonata)
  ELSE FunctionPattern(jsonata)

extractPatternFromJsonata(jsonata, example) ==
  IF PathPattern(jsonata) # None THEN PathPattern(jsonata)
  ELSE FunctionPattern(jsonata)

(***************************************************************************)
(* The LLM collaborator's responses (completion.choices[0].message.content)*)
(***************************************************************************)
\* content is null or missing
NoContent == None

\* content is the empty string
EmptyContent == Some(<<>>)

CandidateResponses ==
  {NoContent,
   EmptyContent,
   Some(<<" ">> \o TxtEq \o <<"\n">>),
   Some(TxtPath),
   Some(TxtNot)}

ReasoningResponses == {NoContent, Some(<<" ", "r", "1">>)}

\* the files of public/jsonata_documentation the selection may name
ExistingDocs == {"regex", "simple"}

\* JSON.parse of the selection response: a list of names, a value that is
\* no list, or a throw
DocResponses ==
  {[kind |-> "list", names |-> <<"regex", "bogus", "simple">>],
   [kind |-> "list", names |-> <<>>],
   [kind |-> "object", names |-> <<>>],
   [kind |-> "unparseable", names |-> <<>>]}

\* the caller's starting expression, a text no response of the LLM repeats
InitialTexts == {TxtTrue}

Variants == {"progress", "summary"}

(***************************************************************************)
(* String and array helpers of the runtime                                 *)
(***************************************************************************)
RECURSIVE TrimStart(_)
TrimStart(s) ==
  IF s # <<>> /\ Head(s) \in Whitespace THEN TrimStart(Tail(s)) ELSE s

RECURSIVE TrimEnd(_)
TrimEnd(s) ==
  IF s # <<>> /\ s[Len(s)] \in Whitespace
    THEN TrimEnd(SubSeq(s, 1, Len(s) - 1))
    ELSE s

\* String.prototype.trim
Trim(s) == TrimEnd(TrimStart(s))

\* a missing content becomes the text of null
ContentOrNullText(content) ==
  IF content = NoContent THEN <<"n", "u", "l", "l">> ELSE Trim(content[1])

\* completion.choices[0].message.content?.trim() || ""
ContentOrEmpty(content) ==
  IF content = NoContent THEN <<>> ELSE Trim(content[1])

RECURSIVE Filter(_, _)
\* Array.prototype.filter with the predicate given as the set of kept values
Filter(s, keep) ==
  IF s = <<>> THEN <<>>
  ELSE IF Head(s) \in keep THEN <<Head(s)>> \o Filter(Tail(s), keep)
  ELSE Filter(Tail(s), keep)

RECURSIVE FilterPassed(_, _)
\* allResults.filter((r) => r.passed === flag).map((r) => r.example)
FilterPassed(results, flag) ==
  IF results = <<>> THEN <<>>
  ELSE IF Head(results).passed = flag
    THEN <<Head(results).example>> \o FilterPassed(Tail(results), flag)
  ELSE FilterPassed(Tail(results), flag)

Range(s) == {s[i] : i \in 1..Len(s)}

RECURSIVE PatternsOfAsList(_, _, _, _)
\* the patterns are pushed to an array: one entry per outcome
PatternsOfAsList(jsonata, results, flag, acc) ==
  IF results = <<>> THEN acc
  ELSE LET r == Head(results)
           pattern == extractPatternFromJsonata(jsonata, r.example)
           next == IF pattern # None /\ r.passed = flag
                     THEN Append(acc, pattern[1])
                     ELSE acc
       IN PatternsOfAsList(jsonata, Tail(results), flag, next)

RECURSIVE PatternsOf(_, _, _, _)
\* Array.from of the Set filled by the loop over allResults: the patterns of
\* the outcomes whose passed flag is `flag`, first insertion order
PatternsOf(jsonata, results, flag, acc) ==
  IF results = <<>> THEN acc
  ELSE LET r == Head(results)
           pattern == extractPatternFromJsonata(jsonata, r.example)
           next == IF pattern # None /\ r.passed = flag /\ pattern[1] \notin Range(acc)
                     THEN Append(acc, pattern[1])
                     ELSE acc
       IN PatternsOf(jsonata, Tail(results), flag, next)

\* an empty outcome list does not count as all passed
AllPassedNonEmpty(results) ==
  results # <<>> /\ \A i \in 1..Len(results) : results[i].passed

\* allResults.every((result) => result.passed)
AllPassed(results) == \A i \in 1..Len(results) : results[i].passed

\* allResults.some((r) => !r.passed), progress.failedExamples.length > 0
SomeFailed(results) == \E i \in 1..Len(results) : ~results[i].passed

(***************************************************************************)
(* State                                                                   *)
(***************************************************************************)
VARIABLES
  variant,          \* which route is deployed: Progress or LearningSummary
  initialJsonata,   \* request body
  trueExamples,
  falseExamples,
  pc,               \* where the background task of POST is suspended
  caller,           \* who awaits loadRelevantDocumentation's selection request
  documentation,    \* the local `documentation` of the pending generateNextJsonata
  currentJsonata,
  allResults,
  progress,         \* progress / learningSummary
  written,          \* the records writer.write has accepted, in order
  streamState,      \* the writable side: open, closed or errored
  streamError,      \* why it is errored: none, cancel or fault
  genCalls,         \* generateNextJsonata calls started
  docCalls,         \* documentation-selection requests sent to the LLM
  reasoningCalls,   \* generateReasoning calls started
  llmCalls,         \* openai.chat.completions.create requests sent
  iterLog,          \* per evaluated iteration: whether the LLM's response had no
                    \* text, what was evaluated and what was requested
  genLog,           \* per generateNextJsonata call: the arguments that change
  clientState,      \* handleAgenticSolve: idle, reading, done, error, cancelled
  displayed,        \* agenticIterations.iterations
  clientError,      \* the page's error message is set
  isAgenticLoading,
  agenticController,
  cancelSeen,       \* the transport has cancelled the response body
  evalInput,        \* one call of testJsonata taken alone
  evalOutput,
  docInput,         \* one call of loadRelevantDocumentation taken alone
  docCall,
  runs,             \* two POST calls in one process: each call's own state
  cells,            \* and the places that hold currentJsonata and progress
  patCall,          \* one call of extractPatternFromJsonata taken alone
  repCall,          \* testJsonata called again after other evaluations
  valCall,          \* one call of validateTestExample taken alone
  genCall,          \* one request to the example-generation endpoint
  netCall           \* the bytes of one response on their way to the page

serverVars ==
  <<pc, caller, documentation, currentJsonata, allResults, progress, written,
    genCalls, docCalls, reasoningCalls, llmCalls, iterLog, genLog>>

requestVars == <<variant, initialJsonata, trueExamples, falseExamples>>

streamVars == <<streamState, streamError, cancelSeen>>

clientVars == <<clientState, displayed, clientError, isAgenticLoading, agenticController>>

evalVars == <<evalInput, evalOutput>>

docVars == <<docInput, docCall>>

twoVars == <<runs, cells>>

partVars == <<patCall, repCall, valCall, genCall, netCall>>

\* everything but the two calls followed on their own
oneCallVars ==
  <<requestVars, serverVars, streamVars, clientVars, evalVars, docVars, partVars>>

\* the variables of the parts taken alone
aloneVars == <<evalVars, docVars, twoVars, partVars>>

vars == <<requestVars, serverVars, streamVars, clientVars, aloneVars>>

Terminal == {"done", "aborted"}

\* let progress: Progress = {...} / let learningSummary: LearningSummary = {...}
InitialProgress(v) ==
  [passedExamples |-> <<>>, failedExamples |-> <<>>, successfulPatterns |-> <<>>,
   failedPatterns |-> <<>>,
   reasoning |-> IF v = "summary" THEN Some(<<>>) ELSE None,
   documentation |-> None]

NoEval == [text |-> <<>>, examples |-> <<>>, shouldPass |-> FALSE]

\* loadRelevantDocumentation is not being called
NoDocCall == [pc |-> "idle", requests |-> 0, response |-> None, documentation |-> <<>>]

\* no POST call is being followed on its own
NoRuns == <<>>

\* the function or endpoint is not being called
NoCall == <<>>

PartsIdle ==
  /\ patCall = NoCall
  /\ repCall = NoCall
  /\ valCall = NoCall
  /\ genCall = NoCall
  /\ netCall = NoCall

Init ==
  /\ variant \in Variants
  /\ initialJsonata \in InitialTexts
  /\ trueExamples \in TrueExampleLists
  /\ falseExamples \in FalseExampleLists
  /\ pc = "start"
  /\ caller = "none"
  /\ documentation = <<>>
  /\ currentJsonata = initialJsonata
  /\ allResults = <<>>
  /\ progress = InitialProgress(variant)
  /\ written = <<>>
  /\ streamState = "open"
  /\ streamError = "none"
  /\ genCalls = 0
  /\ docCalls = 0
  /\ reasoningCalls = 0
  /\ llmCalls = 0
  /\ iterLog = <<>>
  /\ genLog = <<>>
  /\ clientState = "idle"
  /\ displayed = <<>>
  /\ clientError = FALSE
  /\ isAgenticLoading = FALSE
  /\ agenticController = FALSE
  /\ cancelSeen = FALSE
  /\ evalInput = NoEval
  /\ evalOutput = None
  /\ docInput = None
  /\ docCall = NoDocCall
  /\ runs = NoRuns
  /\ cells = NoRuns
  /\ PartsIdle

(***************************************************************************)
(* loadRelevantDocumentation                                               *)
(***************************************************************************)
\* an empty selection is taken for a missing one
DocRequestNeededWhenEmpty(existingDocs) == existingDocs = None \/ existingDocs = Some(<<>>)

\* if (!existingDocs)
DocRequestNeeded(existingDocs) == existingDocs = None

\* the names the LLM proposes are taken as they come
SelectedDocsUnfiltered(response) ==
  IF response.kind = "list" THEN response.names ELSE <<>>

\* JSON.parse(...) then requestedDocs.filter(existsSync); a throw leaves []
SelectedDocs(response) ==
  IF response.kind = "list" THEN Filter(response.names, ExistingDocs) ELSE <<>>

\* the pinned selection is filtered like a fresh one
PinnedSelectionFiltered(existingDocs) == Filter(existingDocs[1], ExistingDocs)

\* else { documentation = existingDocs }
PinnedSelection(existingDocs) == existingDocs[1]

(***************************************************************************)
(* The background task of POST, one action per stretch between two awaits  *)
(***************************************************************************)
\* the analysis is requested in every iteration
ReasoningWantedAlways(v, prog, results) == TRUE

\* the analysis is never requested
ReasoningWantedNever(v, prog, results) == FALSE

\* the negative examples are evaluated and listed first
EvaluateAllNegativeFirst(jsonata, positives, negatives) ==
  testJsonata(jsonata, negatives, FALSE) \o testJsonata(jsonata, positives, TRUE)

\* const trueResults = await testJsonata(currentJsonata, trueExamples, true);
\* const falseResults = await testJsonata(currentJsonata, falseExamples, false);
\* const allResults = [...trueResults, ...falseResults]
EvaluateAll(jsonata, positives, negatives) ==
  testJsonata(jsonata, positives, TRUE) \o testJsonata(jsonata, negatives, FALSE)

\* the condition guarding generateReasoning
ReasoningWanted(v, prog, results) ==
  IF v = "progress" THEN prog.failedExamples # <<>> ELSE SomeFailed(results)

\* "Update progress tracking" / "Update learning summary"
ProgressAfterEval(v, prog, jsonata, results) ==
  IF v = "progress"
    THEN LET passedExamples == FilterPassed(results, TRUE)
         IN [prog EXCEPT
               !.passedExamples = passedExamples,
               !.failedExamples = FilterPassed(results, FALSE),
               !.successfulPatterns =
                 IF passedExamples # <<>>
                   THEN PatternsOf(jsonata, results, TRUE, <<>>)
                   ELSE prog.successfulPatterns]
    ELSE [prog EXCEPT
            !.successfulPatterns = PatternsOf(jsonata, results, TRUE, <<>>),
            !.failedPatterns = PatternsOf(jsonata, results, FALSE, <<>>)]

\* the record of an all-pass iteration carries no reasoning
IterationRecordClearingReasoning(v, jsonata, results, prog) ==
  [jsonata |-> jsonata,
   results |-> results,
   documentation |-> prog.documentation,
   progress |->
     [passedExamples |-> FilterPassed(results, TRUE),
      failedExamples |-> FilterPassed(results, FALSE),
      successfulPatterns |-> prog.successfulPatterns,
      reasoning |-> IF FilterPassed(results, FALSE) = <<>> THEN None ELSE prog.reasoning,
      documentation |-> IF v = "progress" THEN prog.documentation ELSE None]]

\* const iteration: Iteration = {...}
IterationRecord(v, jsonata, results, prog) ==
  [jsonata |-> jsonata,
   results |-> results,
   documentation |-> prog.documentation,
   progress |->
     [passedExamples |-> FilterPassed(results, TRUE),
      failedExamples |-> FilterPassed(results, FALSE),
      successfulPatterns |-> prog.successfulPatterns,
      reasoning |-> prog.reasoning,
      documentation |-> IF v = "progress" THEN prog.documentation ELSE None]]

\* the call carries neither the outcomes nor the reasoning
GenerateArgsBare(v, jsonata, results, prog) ==
  [currentJsonata |-> jsonata, previousResults |-> None, reasoning |-> None]

\* the arguments of a generateNextJsonata call that change from one call to
\* the next: currentJsonata, previousResults (the Progress variant has the
\* parameter, the LearningSummary variant has not) and the reasoning held by
\* progress or learningSummary
GenerateArgs(v, jsonata, results, prog) ==
  [currentJsonata |-> jsonata,
   previousResults |-> IF v = "progress" THEN Some(results) ELSE None,
   reasoning |-> prog.reasoning]

\* the result of the first call is dropped: the first turn evaluates the
\* caller's expression
CurrentAfterCallKeepingInitial(calls, current, newJsonata) ==
  IF calls = 1 THEN current ELSE newJsonata

\* currentJsonata = firstJsonata / currentJsonata = nextJsonata: what the
\* next turn of the loop evaluates
CurrentAfterCall(calls, current, newJsonata) == newJsonata

\* whether the candidate generator's result is stored as the selection
StoresDocumentation(v, calls) == calls = 1 \/ v = "summary"

\* the loop leaves after the first record whatever its outcomes
LoopEndsAfterAnyRecord(results) == TRUE

\* the break is missing
LoopEndsNever(results) == FALSE

\* the loop leaves as soon as one example passes
LoopEndsOnAnyPass(results) == \E i \in 1..Len(results) : results[i].passed

\* whether the loop leaves after the write
LoopEnds(results) == AllPassed(results)

\* the write is accepted whatever has happened to the stream
WriteAcceptedAlways(state) == TRUE

\* await writer.write(...) resolves on a stream that is open and rejects on an
\* errored one
WriteAccepted(state) == state = "open"

\* the record is dropped instead of written
EmittedNothing(w, record) == w

\* the record is written again on the next turn of the loop
EmittedTwice(w, record) == Append(Append(w, record), record)

\* the chunk handed to writer.write joins the stream's content
Emitted(w, record) == Append(w, record)

\* the catch ends the stream with writer.close() instead of writer.abort(error)
AbortByClosing ==
  /\ pc' = "aborted"
  /\ streamState' = IF streamState = "open" THEN "closed" ELSE streamState
  /\ streamError' = streamError

\* catch (error) { await writer.abort(error) }
Abort ==
  /\ pc' = "aborted"
  /\ streamState' = IF streamState = "open" THEN "errored" ELSE streamState
  /\ streamError' = IF streamState = "open" THEN "fault" ELSE streamError

\* POST up to the first await of the background task: the first
\* generateNextJsonata call reaches loadRelevantDocumentation
POST ==
  /\ pc = "start"
  /\ clientState # "idle"
  /\ genCalls' = 1
  /\ llmCalls' = llmCalls + 1
  /\ caller' = "generate"
  /\ IF DocRequestNeeded(progress.documentation)
       THEN /\ pc' = "docSelect"
            /\ docCalls' = docCalls + 1
            /\ UNCHANGED documentation
       ELSE /\ pc' = "candidate"
            /\ documentation' = PinnedSelection(progress.documentation)
            /\ UNCHANGED docCalls
  /\ genLog' = Append(genLog, GenerateArgs(variant, currentJsonata, <<>>, progress))
  /\ UNCHANGED <<currentJsonata, allResults, progress, written, reasoningCalls, iterLog>>
  /\ UNCHANGED <<requestVars, streamVars, clientVars, aloneVars>>

\* the selection request returns: the rest of loadRelevantDocumentation, then
\* the caller goes on to its own completion request
DocSelectReturn ==
  /\ pc = "docSelect"
  /\ \E response \in DocResponses :
       IF caller = "generate"
         THEN /\ documentation' = SelectedDocs(response)
              /\ pc' = "candidate"
         ELSE /\ UNCHANGED documentation
              /\ pc' = "reasoning"
  /\ llmCalls' = llmCalls + 1
  /\ UNCHANGED <<caller, currentJsonata, allResults, progress, written, genCalls,
                 docCalls, reasoningCalls, iterLog, genLog>>
  /\ UNCHANGED <<requestVars, streamVars, clientVars, aloneVars>>

\* generateNextJsonata returns: the candidate is evaluated, the learning state
\* updated, and either generateReasoning or writer.write is awaited
CandidateReturn ==
  /\ pc = "candidate"
  /\ Len(iterLog) < MaxIter
  /\ \E content \in CandidateResponses :
       LET newJsonata == CurrentAfterCall(genCalls, currentJsonata, ContentOrEmpty(content))
           withDocs == IF StoresDocumentation(variant, genCalls)
                         THEN [progress EXCEPT !.documentation = Some(documentation)]
                         ELSE progress
           results == EvaluateAll(newJsonata, trueExamples, falseExamples)
           updated == ProgressAfterEval(variant, withDocs, newJsonata, results)
           reasons == ReasoningWanted(variant, updated, results)
       IN /\ currentJsonata' = newJsonata
          /\ allResults' = results
          /\ progress' = updated
          /\ iterLog' = Append(iterLog,
                               [noText |-> content \in {NoContent, EmptyContent},
                                jsonata |-> newJsonata,
                                results |-> results,
                                reasoningCalls |-> IF reasons THEN 1 ELSE 0,
                                reasoning |-> None])
          /\ reasoningCalls' = IF reasons THEN reasoningCalls + 1 ELSE reasoningCalls
          /\ llmCalls' = IF reasons THEN llmCalls + 1 ELSE llmCalls
          /\ IF ~reasons
               THEN pc' = "write" /\ UNCHANGED <<caller, docCalls>>
             ELSE IF DocRequestNeeded(updated.documentation)
               THEN pc' = "docSelect" /\ caller' = "reasoning" /\ docCalls' = docCalls + 1
             ELSE pc' = "reasoning" /\ UNCHANGED <<caller, docCalls>>
  /\ UNCHANGED <<documentation, written, genCalls, genLog>>
  /\ UNCHANGED <<requestVars, streamVars, clientVars, aloneVars>>

\* generateReasoning returns: the record is built and writer.write awaited
ReasoningReturn ==
  /\ pc = "reasoning"
  /\ \E content \in ReasoningResponses :
       /\ progress' = [progress EXCEPT !.reasoning = Some(ContentOrEmpty(content))]
       /\ iterLog' = [iterLog EXCEPT
                        ![Len(iterLog)].reasoning = Some(ContentOrEmpty(content))]
  /\ pc' = "write"
  /\ UNCHANGED <<caller, documentation, currentJsonata, allResults, written, genCalls,
                 docCalls, reasoningCalls, llmCalls, genLog>>
  /\ UNCHANGED <<requestVars, streamVars, clientVars, aloneVars>>

\* openai.chat.completions.create rejects: nothing catches it before the
\* catch of the background task
LLMFail ==
  /\ pc \in {"docSelect", "candidate", "reasoning"}
  /\ Abort
  /\ UNCHANGED <<caller, documentation, currentJsonata, allResults, progress, written,
                 genCalls, docCalls, reasoningCalls, llmCalls, iterLog, genLog>>
  /\ UNCHANGED <<requestVars, cancelSeen, clientVars, aloneVars>>

\* writer.write settles: on an errored stream it rejects; otherwise the record
\* is out, and the loop either leaves for writer.close or asks for the next
\* candidate
WriteDone ==
  /\ pc = "write"
  /\ IF ~WriteAccepted(streamState)
       THEN /\ Abort
            /\ UNCHANGED <<caller, documentation, written, genCalls, docCalls, llmCalls,
                           genLog>>
       ELSE /\ written' = Emitted(written,
                                  IterationRecord(variant, currentJsonata, allResults, progress))
            /\ UNCHANGED <<streamState, streamError>>
            /\ IF LoopEnds(allResults)
                 THEN /\ pc' = "close"
                      /\ UNCHANGED <<caller, documentation, genCalls, docCalls, llmCalls,
                                     genLog>>
                 ELSE /\ genCalls' = genCalls + 1
                      /\ genLog' = Append(genLog,
                                          GenerateArgs(variant, currentJsonata, allResults,
                                                       progress))
                      /\ llmCalls' = llmCalls + 1
                      /\ caller' = "generate"
                      /\ IF DocRequestNeeded(progress.documentation)
                           THEN /\ pc' = "docSelect"
                                /\ docCalls' = docCalls + 1
                                /\ UNCHANGED documentation
                           ELSE /\ pc' = "candidate"
                                /\ documentation' = PinnedSelection(progress.documentation)
                                /\ UNCHANGED docCalls
  /\ UNCHANGED <<currentJsonata, allResults, progress, reasoningCalls, iterLog>>
  /\ UNCHANGED <<requestVars, cancelSeen, clientVars, aloneVars>>

\* writer.close settles
CloseDone ==
  /\ pc = "close"
  /\ IF streamState = "open"
       THEN pc' = "done" /\ streamState' = "closed" /\ UNCHANGED streamError
       ELSE Abort
  /\ UNCHANGED <<caller, documentation, currentJsonata, allResults, progress, written,
                 genCalls, docCalls, reasoningCalls, llmCalls, iterLog, genLog>>
  /\ UNCHANGED <<requestVars, cancelSeen, clientVars, aloneVars>>

(***************************************************************************)
(* The page: handleAgenticSolve and handleCancelAgentic                    *)
(***************************************************************************)
\* up to the fetch
\* every caught error is shown, a cancellation included
ErrorShownAlways(name) == TRUE

\* catch (error): an AbortError is only logged, any other error is shown
ErrorShown(name) == name # "AbortError"

handleAgenticSolve ==
  /\ clientState = "idle"
  /\ clientState' = "reading"
  /\ isAgenticLoading' = TRUE
  /\ clientError' = FALSE
  /\ displayed' = <<>>
  /\ agenticController' = TRUE
  /\ UNCHANGED <<requestVars, serverVars, streamVars, aloneVars>>

\* reader.read() yields a chunk: it is parsed and appended
ClientRead ==
  /\ clientState = "reading"
  /\ Len(displayed) < Len(written)
  /\ displayed' = Append(displayed, written[Len(displayed) + 1])
  /\ UNCHANGED <<clientState, clientError, isAgenticLoading, agenticController>>
  /\ UNCHANGED <<requestVars, serverVars, streamVars, aloneVars>>

\* reader.read() yields done: break, finally
ClientEnd ==
  /\ clientState = "reading"
  /\ streamState = "closed"
  /\ Len(displayed) = Len(written)
  /\ clientState' = "done"
  /\ isAgenticLoading' = FALSE
  /\ agenticController' = FALSE
  /\ UNCHANGED <<displayed, clientError>>
  /\ UNCHANGED <<requestVars, serverVars, streamVars, aloneVars>>

\* reader.read() rejects because the server aborted the stream: catch, finally
ClientFault ==
  /\ clientState = "reading"
  /\ streamError = "fault"
  /\ clientState' = "error"
  /\ clientError' = (ErrorShown("TypeError") \/ clientError)
  /\ isAgenticLoading' = FALSE
  /\ agenticController' = FALSE
  /\ UNCHANGED displayed
  /\ UNCHANGED <<requestVars, serverVars, streamVars, aloneVars>>

\* agenticController.abort(): the pending fetch or read rejects with an
\* AbortError, which the catch only logs; finally
handleCancelAgentic ==
  /\ agenticController
  /\ clientState' = "cancelled"
  /\ clientError' = (ErrorShown("AbortError") \/ clientError)
  /\ isAgenticLoading' = FALSE
  /\ agenticController' = FALSE
  /\ UNCHANGED displayed
  /\ UNCHANGED <<requestVars, serverVars, streamVars, aloneVars>>

\* the server's transport learns that the client is gone and cancels the
\* response body, stream.readable: the writable side becomes errored.  The
\* body exists once POST has returned its Response.
CancelPropagate ==
  /\ clientState = "cancelled"
  /\ pc # "start"
  /\ ~cancelSeen
  /\ cancelSeen' = TRUE
  /\ streamState' = IF streamState = "open" THEN "errored" ELSE streamState
  /\ streamError' = IF streamState = "open" THEN "cancel" ELSE streamError
  /\ UNCHANGED <<requestVars, serverVars, clientVars, aloneVars>>

ServerStep ==
  \/ POST
  \/ DocSelectReturn
  \/ CandidateReturn
  \/ ReasoningReturn
  \/ LLMFail
  \/ WriteDone
  \/ CloseDone

Next ==
  \/ ServerStep
  \/ handleAgenticSolve
  \/ ClientRead
  \/ ClientEnd
  \/ ClientFault
  \/ handleCancelAgentic
  \/ CancelPropagate

Spec == Init /\ [][Next]_vars

(***************************************************************************)
(* testJsonata taken alone                                                 *)
(***************************************************************************)
\* no request is being served and the page is idle
Idle ==
  /\ variant = "progress"
  /\ initialJsonata = TxtEmpty
  /\ trueExamples = <<>>
  /\ falseExamples = <<>>
  /\ pc = "start"
  /\ caller = "none"
  /\ documentation = <<>>
  /\ currentJsonata = TxtEmpty
  /\ allResults = <<>>
  /\ progress = InitialProgress("progress")
  /\ written = <<>>
  /\ streamState = "open"
  /\ streamError = "none"
  /\ genCalls = 0
  /\ docCalls = 0
  /\ reasoningCalls = 0
  /\ llmCalls = 0
  /\ iterLog = <<>>
  /\ genLog = <<>>
  /\ clientState = "idle"
  /\ displayed = <<>>
  /\ clientError = FALSE
  /\ isAgenticLoading = FALSE
  /\ agenticController = FALSE
  /\ cancelSeen = FALSE

\* nothing of the run, the evaluator, the selector or the two calls is going on
RunPartsIdle ==
  /\ Idle
  /\ evalInput = NoEval
  /\ evalOutput = None
  /\ docInput = None
  /\ docCall = NoDocCall
  /\ runs = NoRuns
  /\ cells = NoRuns

EvalInit ==
  /\ evalInput \in [text : AllTexts, examples : ExampleLists, shouldPass : BOOLEAN]
  /\ evalOutput = None
  /\ Idle
  /\ docInput = None
  /\ docCall = NoDocCall
  /\ runs = NoRuns
  /\ cells = NoRuns
  /\ PartsIdle

RunTestJsonata ==
  /\ evalOutput = None
  /\ evalOutput' = Some(testJsonata(evalInput.text, evalInput.examples, evalInput.shouldPass))
  /\ UNCHANGED <<evalInput, requestVars, serverVars, streamVars, clientVars, docVars,
                 twoVars, partVars>>

EvalNext == RunTestJsonata

EvalSpec == EvalInit /\ [][EvalNext]_vars

(***************************************************************************)
(* loadRelevantDocumentation taken alone                                   *)
(***************************************************************************)
\* the names a selection may hold: two documents that exist and one that
\* does not
DocNames == ExistingDocs \cup {"bogus"}

NameLists == UNION {[1..k -> DocNames] : k \in 0..MaxNames}

\* the content of the selection response: missing, a JSON array of names, a
\* JSON value that is no array, or no JSON at all
AllDocResponses ==
  {[kind |-> "list", names |-> l] : l \in NameLists}
    \cup {[kind |-> k, names |-> <<>>] :
            k \in {"missing", "object", "string", "null", "unparseable"}}

DocInit ==
  /\ docInput \in {None} \cup {Some(l) : l \in NameLists}
  /\ docCall = NoDocCall
  /\ Idle
  /\ evalInput = NoEval
  /\ evalOutput = None
  /\ runs = NoRuns
  /\ cells = NoRuns
  /\ PartsIdle

\* loadRelevantDocumentation up to its await, or to its return when a
\* selection is passed in
LoadDocsCall ==
  /\ docCall.pc = "idle"
  /\ docCall' =
       IF DocRequestNeeded(docInput)
         THEN [docCall EXCEPT !.pc = "request", !.requests = @ + 1]
         ELSE [docCall EXCEPT !.pc = "returned",
                              !.documentation = PinnedSelection(docInput)]
  /\ UNCHANGED <<docInput, requestVars, serverVars, streamVars, clientVars, evalVars,
                 twoVars, partVars>>

\* the selection request resolves: the rest of loadRelevantDocumentation
LoadDocsRequestReturn ==
  /\ docCall.pc = "request"
  /\ \E response \in AllDocResponses :
       docCall' = [docCall EXCEPT !.pc = "returned",
                                  !.response = Some(response),
                                  !.documentation = SelectedDocs(response)]
  /\ UNCHANGED <<docInput, requestVars, serverVars, streamVars, clientVars, evalVars,
                 twoVars, partVars>>

\* the selection request rejects: the await is outside the try
LoadDocsRequestFail ==
  /\ docCall.pc = "request"
  /\ docCall' = [docCall EXCEPT !.pc = "failed"]
  /\ UNCHANGED <<docInput, requestVars, serverVars, streamVars, clientVars, evalVars,
                 twoVars, partVars>>

DocNext ==
  \/ LoadDocsCall
  \/ LoadDocsRequestReturn
  \/ LoadDocsRequestFail

DocSpec == DocInit /\ [][DocNext]_vars

(***************************************************************************)
(* Two POST calls served by one process.  Each call runs its own background*)
(* task; the tasks interleave at their awaits.  The only module-level      *)
(* object of the route is the `openai` client, which the tasks use to send *)
(* requests and never assign.                                              *)
(***************************************************************************)
Runs == {1, 2}

\* the requests of the two calls
RunRequests ==
  <<[trueExamples |-> <<Ex1>>, falseExamples |-> <<Ex2>>],
    [trueExamples |-> <<Ex1, Ex2>>, falseExamples |-> <<>>]>>

\* what the LLM answers to the calls of the two tasks
RunDocResponses ==
  {[kind |-> "list", names |-> <<"regex", "bogus", "simple">>],
   [kind |-> "unparseable", names |-> <<>>]}

RunCandidateResponses == {NoContent, Some(<<" ">> \o TxtEq \o <<"\n">>)}

RunReasoningResponses == {NoContent, Some(<<" ", "r", "1">>)}

\* currentJsonata and progress are declared at module level: one place for
\* every call
CellShared(r) == 1

\* let currentJsonata / let progress are declared inside the background task
\* of POST: every call has its own
CellOf(r) == r

\* the response of an LLM call as the task that made the call received it
Received(call, response) == [call |-> call, response |-> response]

TwoInit ==
  /\ runs = [r \in Runs |->
               [pc |-> "start",
                trueExamples |-> RunRequests[r].trueExamples,
                falseExamples |-> RunRequests[r].falseExamples,
                caller |-> "none",
                documentation |-> <<>>,
                allResults |-> <<>>,
                iteration |-> None,
                written |-> <<>>,
                genCalls |-> 0,
                log |-> <<>>]]
  /\ cells = [c \in Runs |->
                [currentJsonata |-> TxtEmpty, progress |-> InitialProgress("progress")]]
  /\ Idle
  /\ evalInput = NoEval
  /\ evalOutput = None
  /\ docInput = None
  /\ docCall = NoDocCall
  /\ PartsIdle

\* POST of call r up to the first await of its background task
RunPOST(r) ==
  /\ runs[r].pc = "start"
  /\ cells' = [cells EXCEPT ![CellOf(r)] =
                 [currentJsonata |-> TxtTrue, progress |-> InitialProgress("progress")]]
  /\ runs' = [runs EXCEPT ![r].pc = "docSelect", ![r].caller = "generate",
                          ![r].genCalls = 1]
  /\ UNCHANGED oneCallVars

\* the selection request of call r returns
RunDocSelectReturn(r) ==
  /\ runs[r].pc = "docSelect"
  /\ \E response \in RunDocResponses :
       runs' = [runs EXCEPT
                  ![r].log = Append(@, Received("doc", response)),
                  ![r].documentation =
                    IF runs[r].caller = "generate" THEN SelectedDocs(response) ELSE @,
                  ![r].pc = IF runs[r].caller = "generate" THEN "candidate" ELSE "reasoning"]
  /\ UNCHANGED cells
  /\ UNCHANGED oneCallVars

\* generateNextJsonata of call r returns: currentJsonata and, after the first
\* call, progress.documentation are assigned, and testJsonata is awaited
RunCandidateReturn(r) ==
  /\ runs[r].pc = "candidate"
  /\ \E content \in RunCandidateResponses :
       /\ cells' = [cells EXCEPT
                      ![CellOf(r)].currentJsonata = ContentOrEmpty(content),
                      ![CellOf(r)].progress =
                        IF StoresDocumentation("progress", runs[r].genCalls)
                          THEN [@ EXCEPT !.documentation = Some(runs[r].documentation)]
                          ELSE @]
       /\ runs' = [runs EXCEPT ![r].log = Append(@, Received("candidate", content)),
                               ![r].pc = "evaluate"]
  /\ UNCHANGED oneCallVars

\* the two testJsonata calls of call r have returned: progress is updated and
\* either generateReasoning is awaited or the record is built and its write
\* awaited
RunEvaluated(r) ==
  /\ runs[r].pc = "evaluate"
  /\ LET cell == cells[CellOf(r)]
         results == EvaluateAll(cell.currentJsonata, runs[r].trueExamples,
                                runs[r].falseExamples)
         updated == ProgressAfterEval("progress", cell.progress, cell.currentJsonata, results)
         reasons == ReasoningWanted("progress", updated, results)
     IN /\ cells' = [cells EXCEPT ![CellOf(r)].progress = updated]
        /\ runs' = [runs EXCEPT
                      ![r].allResults = results,
                      ![r].iteration =
                        IF reasons THEN @
                        ELSE Some(IterationRecord("progress", cell.currentJsonata,
                                                  results, updated)),
                      ![r].caller =
                        IF reasons /\ DocRequestNeeded(updated.documentation)
                          THEN "reasoning" ELSE @,
                      ![r].pc =
                        IF ~reasons THEN "write"
                        ELSE IF DocRequestNeeded(updated.documentation) THEN "docSelect"
                        ELSE "reasoning"]
  /\ UNCHANGED oneCallVars

\* generateReasoning of call r returns: the record is built and its write
\* awaited
RunReasoningReturn(r) ==
  /\ runs[r].pc = "reasoning"
  /\ \E content \in RunReasoningResponses :
       LET cell == cells[CellOf(r)]
           updated == [cell.progress EXCEPT !.reasoning = Some(ContentOrEmpty(content))]
       IN /\ cells' = [cells EXCEPT ![CellOf(r)].progress = updated]
          /\ runs' = [runs EXCEPT
                        ![r].log = Append(@, Received("reasoning", content)),
                        ![r].iteration =
                          Some(IterationRecord("progress", cell.currentJsonata,
                                               runs[r].allResults, updated)),
                        ![r].pc = "write"]
  /\ UNCHANGED oneCallVars

\* an LLM request of call r rejects
RunLLMFail(r) ==
  /\ runs[r].pc \in {"docSelect", "candidate", "reasoning"}
  /\ runs' = [runs EXCEPT ![r].pc = "aborted"]
  /\ UNCHANGED cells
  /\ UNCHANGED oneCallVars

\* writer.write of call r resolves: the loop leaves for writer.close or asks
\* for the next candidate
RunWriteDone(r) ==
  /\ runs[r].pc = "write"
  /\ ~LoopEnds(runs[r].allResults) => runs[r].genCalls < MaxIter
  /\ LET pinned == cells[CellOf(r)].progress.documentation
     IN runs' = [runs EXCEPT
                   ![r].written = Emitted(@, runs[r].iteration[1]),
                   ![r].genCalls = IF LoopEnds(runs[r].allResults) THEN @ ELSE @ + 1,
                   ![r].caller = IF LoopEnds(runs[r].allResults) THEN @ ELSE "generate",
                   ![r].documentation =
                     IF LoopEnds(runs[r].allResults) \/ DocRequestNeeded(pinned)
                       THEN @ ELSE PinnedSelection(pinned),
                   ![r].pc =
                     IF LoopEnds(runs[r].allResults) THEN "close"
                     ELSE IF DocRequestNeeded(pinned) THEN "docSelect"
                     ELSE "candidate"]
  /\ UNCHANGED cells
  /\ UNCHANGED oneCallVars

\* writer.close of call r resolves
RunCloseDone(r) ==
  /\ runs[r].pc = "close"
  /\ runs' = [runs EXCEPT ![r].pc = "done"]
  /\ UNCHANGED cells
  /\ UNCHANGED oneCallVars

RunStep(r) ==
  \/ RunPOST(r)
  \/ RunDocSelectReturn(r)
  \/ RunCandidateReturn(r)
  \/ RunEvaluated(r)
  \/ RunReasoningReturn(r)
  \/ RunLLMFail(r)
  \/ RunWriteDone(r)
  \/ RunCloseDone(r)

TwoNext == \E r \in Runs : RunStep(r)

TwoSpec == TwoInit /\ [][TwoNext]_vars

(***************************************************************************)
(* extractPatternFromJsonata taken alone                                   *)
(***************************************************************************)
\* an identifier character, the dot, the dollar and the opening parenthesis
PatternChars == {"a", ".", "$", "("}

PatternTexts == UNION {[1..k -> PatternChars] : k \in 0..MaxTextLen}

PatInit ==
  /\ patCall \in [text : PatternTexts, example : Examples, result : {None}]
  /\ RunPartsIdle
  /\ netCall = NoCall
  /\ repCall = NoCall
  /\ valCall = NoCall
  /\ genCall = NoCall

RunExtractPattern ==
  /\ patCall.result = None
  /\ patCall' = [patCall EXCEPT
                   !.result = Some(extractPatternFromJsonata(patCall.text, patCall.example))]
  /\ UNCHANGED <<requestVars, serverVars, streamVars, clientVars, evalVars, docVars,
                 twoVars, netCall, repCall, valCall, genCall>>

PatNext == RunExtractPattern

PatSpec == PatInit /\ [][PatNext]_vars

(***************************************************************************)
(* The evaluator called twice with the same arguments, another call in     *)
(* between                                                                 *)
(***************************************************************************)
RepTexts == AllTexts \cup {TxtClock}

RepInit ==
  /\ repCall \in [jsonataStr : RepTexts, example : Examples, shouldPass : BOOLEAN,
                  otherStr : RepTexts, otherExample : Examples,
                  pc : {"first"}, expression : {None},
                  first : {None}, between : {None}, again : {None}]
  /\ RunPartsIdle
  /\ netCall = NoCall
  /\ patCall = NoCall
  /\ valCall = NoCall
  /\ genCall = NoCall

\* testJsonata(jsonataStr, [example], shouldPass)
RunFirst ==
  /\ repCall.pc = "first"
  /\ LET text == ExpressionFor(repCall.jsonataStr, repCall.expression)
     IN \E evaluated \in JsonataEvaluations(text, repCall.example) :
          repCall' = [repCall EXCEPT
                        !.pc = "between", !.expression = Some(repCall.jsonataStr),
                        !.first = Some(OutcomeOf(JsonataParse(text), evaluated,
                                                 repCall.example, repCall.shouldPass))]
  /\ UNCHANGED <<requestVars, serverVars, streamVars, clientVars, evalVars, docVars,
                 twoVars, netCall, patCall, valCall, genCall>>

\* testJsonata(otherStr, [otherExample], shouldPass)
RunBetween ==
  /\ repCall.pc = "between"
  /\ LET text == ExpressionFor(repCall.otherStr, repCall.expression)
     IN \E evaluated \in JsonataEvaluations(text, repCall.otherExample) :
          repCall' = [repCall EXCEPT
                        !.pc = "again", !.expression = Some(repCall.otherStr),
                        !.between = Some(OutcomeOf(JsonataParse(text), evaluated,
                                                   repCall.otherExample,
                                                   repCall.shouldPass))]
  /\ UNCHANGED <<requestVars, serverVars, streamVars, clientVars, evalVars, docVars,
                 twoVars, netCall, patCall, valCall, genCall>>

\* testJsonata(jsonataStr, [example], shouldPass) once more
RunAgain ==
  /\ repCall.pc = "again"
  /\ LET text == ExpressionFor(repCall.jsonataStr, repCall.expression)
     IN \E evaluated \in JsonataEvaluations(text, repCall.example) :
          repCall' = [repCall EXCEPT
                        !.pc = "done", !.expression = Some(repCall.jsonataStr),
                        !.again = Some(OutcomeOf(JsonataParse(text), evaluated,
                                                 repCall.example, repCall.shouldPass))]
  /\ UNCHANGED <<requestVars, serverVars, streamVars, clientVars, evalVars, docVars,
                 twoVars, netCall, patCall, valCall, genCall>>

RepNext == RunFirst \/ RunBetween \/ RunAgain

RepSpec == RepInit /\ [][RepNext]_vars

(***************************************************************************)
(* The example-generation endpoint: validateTestExample                    *)
(***************************************************************************)
\* typeof result
TypeOf(result) ==
  IF result \in {"true", "false"} THEN "boolean"
  ELSE IF result \in {"0", "1", "2"} THEN "number"
  ELSE IF result \in {"''", "'true'"} THEN "string"
  ELSE IF result = "undefined" THEN "undefined"
  ELSE "object"

\* Array.isArray(result)
IsArray(result) == result \in {"[]", "[1]", "[2]"}

\* result.length of an array
ArrayLength(result) == IF result = "[]" THEN 0 ELSE 1

\* Object.keys(result).length
ObjectKeys(result) == IF result \in {"[]", "{}"} THEN 0 ELSE 1

\* an example is valid when the result is truthy
validateTestExampleByTruthiness(example, jsonataExpr, expectedOutput) ==
  LET parsed == JsonataParse(jsonataExpr)
      evaluated == JsonataEvaluate(jsonataExpr, example)
  IN IF ~parsed.ok \/ ~evaluated.ok
       THEN [isValid |-> FALSE, output |-> "null"]
       ELSE [isValid |-> Truthy(evaluated.value), output |-> evaluated.value]

validateTestExample(example, jsonataExpr, expectedOutput) ==
  LET parsed == JsonataParse(jsonataExpr)
      evaluated == JsonataEvaluate(jsonataExpr, example)
      result == evaluated.value
  IN IF ~parsed.ok \/ ~evaluated.ok
       THEN [isValid |-> FALSE, output |-> "null"]
     ELSE IF result = "undefined" \/ result = "null"
       THEN [isValid |-> FALSE, output |-> result]
     ELSE IF TypeOf(result) = "object" /\ IsArray(result) /\ ArrayLength(result) = 0
       THEN [isValid |-> FALSE, output |-> result]
     ELSE IF TypeOf(result) = "object" /\ ObjectKeys(result) = 0
       THEN [isValid |-> FALSE, output |-> result]
     ELSE [isValid |-> TRUE, output |-> result]

ValTexts == AllTexts \cup {TxtArr, TxtZero, TxtBlank, TxtList, TxtPair, TxtWhen}

\* the example output of the request, handed to the validator
ExpectedOutputs == {"1", "true", "[1]"}

ValInit ==
  /\ valCall \in [example : Examples, jsonataExpr : ValTexts,
                  expectedOutput : ExpectedOutputs, result : {None}]
  /\ RunPartsIdle
  /\ netCall = NoCall
  /\ patCall = NoCall
  /\ repCall = NoCall
  /\ genCall = NoCall

RunValidateTestExample ==
  /\ valCall.result = None
  /\ valCall' = [valCall EXCEPT
                   !.result = Some(validateTestExample(valCall.example, valCall.jsonataExpr,
                                                       valCall.expectedOutput))]
  /\ UNCHANGED <<requestVars, serverVars, streamVars, clientVars, evalVars, docVars,
                 twoVars, netCall, patCall, repCall, genCall>>

ValNext == RunValidateTestExample

ValSpec == ValInit /\ [][ValNext]_vars

(***************************************************************************)
(* The example-generation endpoint: POST                                   *)
(***************************************************************************)
maxAttempts == 3

\* the two versions of the endpoint: "validating" is src/unnamed/part_002,
\* "plain" is src/src/app/api/openai/route.ts
GenRoutes == {"validating", "plain"}

GenTexts == {TxtWhen, TxtEq, TxtParen}

GenLists == {<<>>, <<Ex1>>, <<Ex2>>, <<Ex1, Ex2>>}

\* completion.choices[0].message.content: null, a text that is not JSON, the
\* text of an object without the two lists, of an object with trueExamples
\* alone, or of an object with both lists
GenContents ==
  [kind : {"null", "unparseable", "empty"}, trueExamples : {<<>>}, falseExamples : {<<>>}]
    \cup [kind : {"truesOnly"}, trueExamples : GenLists, falseExamples : {<<>>}]
    \cup [kind : {"lists"}, trueExamples : GenLists, falseExamples : GenLists]

\* JSON.parse(completion.choices[0].message.content || "{}")
ParsedResponse(content) ==
  IF content.kind = "null"
    THEN [kind |-> "empty", trueExamples |-> <<>>, falseExamples |-> <<>>]
    ELSE content

\* NextResponse.json(...)
GenError(text) ==
  [status |-> 500, error |-> Some(text), trueExamples |-> None, falseExamples |-> None,
   trueExampleOutputs |-> None, falseExampleOutputs |-> None]

GenBody(trues, falses, trueOutputs, falseOutputs) ==
  [status |-> 200, error |-> None, trueExamples |-> trues, falseExamples |-> falses,
   trueExampleOutputs |-> trueOutputs, falseExampleOutputs |-> falseOutputs]

\* examples.map(example => validateTestExample(example, jsonata, output))
ValidateAll(examples, jsonataExpr, expectedOutput) ==
  [i \in 1..Len(examples) |-> validateTestExample(examples[i], jsonataExpr, expectedOutput)]

OutputsOf(validationResults) ==
  [i \in 1..Len(validationResults) |-> validationResults[i].output]

GenInit ==
  /\ genCall \in [route : GenRoutes, jsonata : GenTexts, output : {"1"},
                  pc : {"asking"}, attempts : {0}, calls : {0}, response : {None},
                  result : {None}]
  /\ RunPartsIdle
  /\ netCall = NoCall
  /\ patCall = NoCall
  /\ repCall = NoCall
  /\ valCall = NoCall

\* the completion returns: the rest of the loop body, and the answer when the
\* loop ends
GenCompletionReturn(content) ==
  /\ genCall.pc = "asking"
  /\ LET threw == [genCall EXCEPT !.calls = @ + 1, !.pc = "done",
                                   !.result = Some(GenError("Failed to process request"))]
         called == [genCall EXCEPT !.calls = @ + 1,
                                   !.response = Some(ParsedResponse(content))]
         fails == [called EXCEPT !.pc = "done",
                                 !.result = Some(GenError("Failed to process request"))]
         trueResults == ValidateAll(content.trueExamples, genCall.jsonata, genCall.output)
         falseResults == ValidateAll(content.falseExamples, genCall.jsonata, genCall.output)
         validResponse == \A i \in 1..Len(trueResults) : trueResults[i].isValid
     IN genCall' =
          IF content.kind = "unparseable" THEN threw
          ELSE IF genCall.route = "plain"
            THEN [called EXCEPT
                    !.pc = "done",
                    !.result = Some(IF content.kind = "lists"
                                      THEN GenBody(Some(content.trueExamples),
                                                   Some(content.falseExamples), None, None)
                                    ELSE IF content.kind = "truesOnly"
                                      THEN GenBody(Some(content.trueExamples), None, None, None)
                                      ELSE GenBody(None, None, None, None))]
          ELSE IF content.kind \notin {"lists", "truesOnly"} THEN fails
          ELSE IF validResponse
            THEN IF content.kind = "truesOnly" THEN fails
                 ELSE [called EXCEPT
                    !.pc = "done",
                    !.result = Some(GenBody(Some(content.trueExamples),
                                            Some(content.falseExamples),
                                            Some(OutputsOf(trueResults)),
                                            Some(OutputsOf(falseResults))))]
          ELSE IF genCall.attempts + 1 < maxAttempts
            THEN [called EXCEPT !.attempts = @ + 1]
          ELSE [called EXCEPT
                  !.attempts = @ + 1, !.pc = "done",
                  !.result = Some(GenError(
                     "Failed to generate valid test examples after multiple attempts"))]
  /\ UNCHANGED <<requestVars, serverVars, streamVars, clientVars, evalVars, docVars,
                 twoVars, netCall, patCall, repCall, valCall>>

\* the completion rejects
GenCompletionFail ==
  /\ genCall.pc = "asking"
  /\ genCall' = [genCall EXCEPT !.calls = @ + 1, !.pc = "done",
                                !.result = Some(GenError("Failed to process request"))]
  /\ UNCHANGED <<requestVars, serverVars, streamVars, clientVars, evalVars, docVars,
                 twoVars, netCall, patCall, repCall, valCall>>

GenNext ==
  \/ \E content \in GenContents : GenCompletionReturn(content)
  \/ GenCompletionFail

GenSpec == GenInit /\ [][GenNext]_vars

(***************************************************************************)
(* The response body on its way to the page: the server's writes, the      *)
(* transport's chunks and the read loop of handleAgenticSolve              *)
(***************************************************************************)
\* encoder.encode(JSON.stringify({ iteration }) + "\n"): the k-th record's
\* bytes, its content standing as one byte
RecordBytes(k) == <<"{", ToString(k), "}", "\n">>

\* JSON.parse(chunk): one complete value with nothing but whitespace around
\* it, or a SyntaxError
JsonParse(chunk) ==
  LET body == Trim(chunk)
  IN IF Len(body) = 3 /\ body[1] = "{" /\ body[3] = "}" /\ body[2] \notin {"{", "}"}
       THEN [ok |-> TRUE, iteration |-> body[2]]
       ELSE [ok |-> FALSE, iteration |-> ""]

NetInit ==
  /\ netCall = [written |-> 0, closed |-> FALSE, wire |-> <<>>, displayed |-> <<>>,
                clientState |-> "reading", clientError |-> FALSE]
  /\ RunPartsIdle
  /\ patCall = NoCall
  /\ repCall = NoCall
  /\ valCall = NoCall
  /\ genCall = NoCall

\* await writer.write(...): the bytes of one more record are on the wire
NetWrite ==
  /\ ~netCall.closed
  /\ netCall.written < MaxRecords
  /\ netCall' = [netCall EXCEPT !.written = @ + 1,
                                !.wire = @ \o RecordBytes(netCall.written + 1)]
  /\ UNCHANGED <<requestVars, serverVars, streamVars, clientVars, evalVars, docVars,
                 twoVars, patCall, repCall, valCall, genCall>>

\* await writer.close()
NetClose ==
  /\ ~netCall.closed
  /\ netCall.written >= 1
  /\ netCall' = [netCall EXCEPT !.closed = TRUE]
  /\ UNCHANGED <<requestVars, serverVars, streamVars, clientVars, evalVars, docVars,
                 twoVars, patCall, repCall, valCall, genCall>>

\* reader.read() yields the next n bytes as one chunk: the chunk is decoded
\* and parsed, and its iteration appended; a SyntaxError goes to the catch
NetRead(n) ==
  /\ netCall.clientState = "reading"
  /\ n \in 1..Len(netCall.wire)
  /\ LET chunk == SubSeq(netCall.wire, 1, n)
         rest == SubSeq(netCall.wire, n + 1, Len(netCall.wire))
         data == JsonParse(chunk)
     IN netCall' =
          IF data.ok
            THEN [netCall EXCEPT !.wire = rest,
                                 !.displayed = Append(@, data.iteration)]
            ELSE [netCall EXCEPT !.wire = rest,
                                 !.clientState = "error",
                                 !.clientError = ErrorShown("SyntaxError")]
  /\ UNCHANGED <<requestVars, serverVars, streamVars, clientVars, evalVars, docVars,
                 twoVars, patCall, repCall, valCall, genCall>>

\* reader.read() yields done: break, finally
NetEnd ==
  /\ netCall.clientState = "reading"
  /\ netCall.closed
  /\ netCall.wire = <<>>
  /\ netCall' = [netCall EXCEPT !.clientState = "done"]
  /\ UNCHANGED <<requestVars, serverVars, streamVars, clientVars, evalVars, docVars,
                 twoVars, patCall, repCall, valCall, genCall>>

NetNext ==
  \/ NetWrite
  \/ NetClose
  \/ \E n \in 1..(Len(RecordBytes(1)) * MaxRecords) : NetRead(n)
  \/ NetEnd

NetSpec == NetInit /\ [][NetNext]_vars

(***************************************************************************)
(* Claims                                                                  *)
(***************************************************************************)
\* what the library returns for the i-th example of the call taken alone
RawResult(i) ==
  IF ~JsonataParse(evalInput.text).ok THEN "parse failure"
  ELSE IF ~JsonataEvaluate(evalInput.text, evalInput.examples[i]).ok THEN "evaluation failure"
  ELSE JsonataEvaluate(evalInput.text, evalInput.examples[i]).value

\* C1: testJsonata marks an outcome passed exactly when the evaluation result
\* is the boolean true for a positive example or the boolean false for a
\* negative one; every other result gives passed = false.
C1_PassedIffMatchingBoolean ==
  evalOutput # None =>
    /\ Len(evalOutput[1]) = Len(evalInput.examples)
    /\ \A i \in 1..Len(evalInput.examples) :
         evalOutput[1][i].passed <=>
           RawResult(i) = (IF evalInput.shouldPass THEN "true" ELSE "false")

\* a positive example on which the expression yields the truthy number 1
C1_Witness ==
  /\ evalOutput # None
  /\ evalInput.shouldPass
  /\ evalInput.examples = <<Ex1, Ex2>>
  /\ RawResult(1) = "1"
  /\ Truthy(RawResult(1))
  /\ ~evalOutput[1][1].passed

\* every outcome of the list passed, said of the outcomes themselves
EveryOutcomePassed(results) == {i \in 1..Len(results) : ~results[i].passed} = {}

\* C2: when every outcome of an iteration passed, the loop emits that
\* iteration's record, closes the stream gracefully and requests no further
\* candidate: the run ends in DONE after that iteration (only a cancellation
\* that has reached the stream turns the end into an abort).
C2_AllPassEndsRun ==
  \A k \in 1..Len(iterLog) :
    EveryOutcomePassed(iterLog[k].results) =>
      /\ k = Len(iterLog)
      /\ genCalls = k
      /\ pc \in {"write", "close", "done", "aborted"}
      /\ pc \in {"close", "done"} =>
           /\ Len(written) = k
           /\ written[k].jsonata = iterLog[k].jsonata
           /\ written[k].results = iterLog[k].results
      /\ pc = "done" => streamState = "closed"
      /\ pc = "aborted" => streamError = "cancel"

\* the second candidate passes every example and the run is DONE
C2_Witness ==
  /\ pc = "done"
  /\ Len(written) = 2
  /\ Len(written[2].results) = 2
  /\ EveryOutcomePassed(written[2].results)
  /\ streamState = "closed"

\* some outcome of the list failed, said of the outcomes themselves
SomeOutcomeFailed(results) == {i \in 1..Len(results) : ~results[i].passed} # {}

\* the background task is suspended in generateNextJsonata
Generating == pc = "candidate" \/ (pc = "docSelect" /\ caller = "generate")

\* a run ends only by an all-pass iteration, a fault or a cancellation
C3_EndsOnlyByPassFaultOrCancel ==
  /\ pc = "done" => Len(iterLog) >= 1 /\ ~SomeOutcomeFailed(iterLog[Len(iterLog)].results)
  /\ pc = "aborted" => streamError \in {"fault", "cancel"}

\* a write of a failing iteration that succeeds is followed by the request for
\* the next candidate, and a candidate that arrives is evaluated
C3_FailedIterationGoesOn ==
  /\ (pc = "write" /\ pc' # "write" /\ SomeOutcomeFailed(allResults) /\ streamState = "open")
       => (Generating' /\ genCalls' = genCalls + 1)
  /\ (pc = "candidate" /\ pc' \notin {"candidate", "aborted"})
       => (Len(iterLog') = Len(iterLog) + 1 /\ iterLog'[Len(iterLog')].jsonata = currentJsonata')

\* C3: an iteration with a failed outcome, without cancellation or fault, is
\* followed by the request and the evaluation of another candidate; there is no
\* iteration cap and no loop-breaking, so a run whose candidates all fail some
\* example never reaches a terminal state on its own.
C3_NoTerminalWhileFailing ==
  [](C3_EndsOnlyByPassFaultOrCancel) /\ [][C3_FailedIterationGoesOn]_vars

\* two failing iterations in a row, the second the same wrong answer, and the
\* run still going
C3_Witness ==
  /\ Len(iterLog) = 2
  /\ SomeOutcomeFailed(iterLog[1].results)
  /\ iterLog[2] = iterLog[1]
  /\ Len(written) = 1
  /\ pc = "write"
  /\ streamError = "none"

\* C4: every iteration whose evaluation has completed is emitted as a record,
\* and the write awaited, before the candidate for the next iteration is
\* requested; records are emitted in generation order.
C4_EmittedBeforeNextCandidate ==
  /\ Len(written) <= Len(iterLog)
  /\ Len(iterLog) <= Len(written) + 1
  /\ \A k \in 1..Len(written) :
       /\ written[k].jsonata = iterLog[k].jsonata
       /\ written[k].results = iterLog[k].results
  /\ Generating => (Len(written) = genCalls - 1 /\ Len(iterLog) = genCalls - 1)
  /\ Len(iterLog) > Len(written) => pc \in {"reasoning", "write", "aborted"}

\* the second candidate is being requested and the first iteration, which
\* failed, is already in the stream
C4_Witness ==
  /\ pc = "candidate"
  /\ genCalls = 2
  /\ Len(written) = 1
  /\ SomeOutcomeFailed(written[1].results)
  /\ written[1].jsonata = iterLog[1].jsonata

\* C5: if the caller cancels after record k has been emitted, no record k+1 is
\* ever delivered to the caller, and the output stream is ended rather than
\* left open: the page's list stops growing at the cancellation, and once the
\* cancellation has reached the stream the stream is errored and accepts no
\* further record.
C5_NoRecordAfterCancel ==
  /\ [](cancelSeen => streamState # "open")
  /\ [][clientState = "cancelled" => displayed' = displayed]_vars
  /\ [][cancelSeen => written' = written]_vars
  /\ [][(cancelSeen /\ pc \in {"write", "close"} /\ pc' # pc) => pc' = "aborted"]_vars

\* cancelled after the first record was shown; the second iteration was
\* evaluated and its write rejected
C5_Witness ==
  /\ clientState = "cancelled"
  /\ cancelSeen
  /\ Len(displayed) = 1
  /\ Len(written) = 1
  /\ Len(iterLog) = 2
  /\ pc = "aborted"
  /\ streamState = "errored"

\* C6: a cancellation that arrives while the loop is suspended in an LLM call
\* is observed at that suspension point: after it the loop starts no further
\* LLM call and no further evaluation.
C6_CancelStopsWorkAtOnce ==
  [][(cancelSeen /\ pc \in {"docSelect", "candidate", "reasoning"})
       => (llmCalls' = llmCalls /\ Len(iterLog') = Len(iterLog))]_vars

\* the background task has ended by a rejected LLM call
AbortedByFault == pc = "aborted" /\ streamError = "fault"

\* the step in which an LLM call rejects
C7_FailureStep ==
  (pc \in {"docSelect", "candidate", "reasoning"} /\ pc' = "aborted")
    => /\ streamState' # "open"
       /\ streamState = "open" => (streamState' = "errored" /\ streamError' = "fault")
       /\ UNCHANGED <<written, llmCalls, genCalls, docCalls, reasoningCalls, iterLog>>

\* nothing happens on the server after the abort
C7_AbortIsFinal ==
  pc = "aborted"
    => /\ pc' = "aborted"
       /\ UNCHANGED <<written, llmCalls, genCalls, docCalls, reasoningCalls, iterLog>>
       /\ streamState' = streamState

\* the page leaves its read loop by the error branch, or by its own cancel
C7_CallerSeesError ==
  (streamError = "fault" /\ clientState = "reading" /\ clientState' # "reading")
    => \/ clientState' = "error" /\ clientError'
       \/ clientState' = "cancelled"

\* C7: if an LLM call fails at any point of a run, the loop does not retry it,
\* emits no further record, and aborts the output stream with the error, so the
\* caller sees a stream error rather than a record or a graceful close.
C7_LLMFailureAbortsStream ==
  /\ [](AbortedByFault => streamState = "errored")
  /\ [](clientState = "done" => streamError # "fault")
  /\ [][C7_FailureStep]_vars
  /\ [][C7_AbortIsFinal]_vars
  /\ [][C7_CallerSeesError]_vars

\* the request for the second candidate failed after the first record was
\* written, and the page shows the error
C7_Witness ==
  /\ AbortedByFault
  /\ genCalls = 2
  /\ Len(iterLog) = 1
  /\ Len(written) = 1
  /\ clientState = "error"
  /\ clientError

\* C8: the documentation-selection request is made exactly once per run, inside
\* the first candidate-generation call; every later candidate-generation and
\* reasoning call reuses that selection, and the documentation field of every
\* record emitted in the run is the same list.
C8_DocumentationSelectedOnce ==
  /\ docCalls = (IF pc = "start" THEN 0 ELSE 1)
  /\ pc = "docSelect" => (caller = "generate" /\ genCalls = 1 /\ Len(iterLog) = 0)
  /\ (pc = "candidate" /\ genCalls > 1) => progress.documentation = Some(documentation)
  /\ pc = "reasoning" => progress.documentation # None
  /\ \A i, j \in 1..Len(written) : written[i].documentation = written[j].documentation
  /\ \A i \in 1..Len(written) :
       written[i].documentation # None /\ written[i].documentation = progress.documentation

\* two records, both carrying the empty selection made by the single request
C8_Witness ==
  /\ Len(written) = 2
  /\ docCalls = 1
  /\ written[1].documentation = Some(<<>>)
  /\ written[2].documentation = Some(<<>>)
  /\ reasoningCalls >= 1

\* the patterns the extractor gives for the outcomes with the given flag
PatternSetOf(jsonata, results, flag) ==
  {p \in {extractPatternFromJsonata(jsonata, results[i].example) :
            i \in {j \in 1..Len(results) : results[j].passed = flag}} : p # None}

\* the evaluation step of the current iteration is over
Evaluated == pc \in {"reasoning", "write", "close"}

\* C9: after the evaluation step of every iteration the working and failed
\* pattern sets of the learning state are exactly the patterns extracted from
\* that iteration's passing and failing outcomes; no pattern of an earlier
\* iteration remains in them.
C9_PatternsOfThisIterationOnly ==
  Evaluated =>
    /\ {Some(p) : p \in Range(progress.successfulPatterns)}
         = PatternSetOf(currentJsonata, allResults, TRUE)
    /\ variant = "summary" =>
         {Some(p) : p \in Range(progress.failedPatterns)}
           = PatternSetOf(currentJsonata, allResults, FALSE)

\* the number of reasoning calls an iteration with these outcomes must make
ReasoningDue(results) == IF SomeOutcomeFailed(results) THEN 1 ELSE 0

RECURSIVE SumReasoningDue(_)
SumReasoningDue(log) ==
  IF log = <<>> THEN 0 ELSE ReasoningDue(Head(log).results) + SumReasoningDue(Tail(log))

\* C10: in each iteration the Reasoning Generator is invoked exactly once if at
\* least one outcome of that iteration has passed = false, and not at all if
\* every outcome passed.
C10_ReasoningOncePerFailingIteration ==
  /\ \A k \in 1..Len(iterLog) : iterLog[k].reasoningCalls = ReasoningDue(iterLog[k].results)
  /\ reasoningCalls = SumReasoningDue(iterLog)
  /\ pc = "reasoning" => SomeOutcomeFailed(allResults)

\* a failing iteration with its one reasoning call, then an all-pass iteration
\* with none
C10_Witness ==
  /\ Len(iterLog) = 2
  /\ iterLog[1].reasoningCalls = 1
  /\ SomeOutcomeFailed(iterLog[1].results)
  /\ iterLog[2].reasoningCalls = 0
  /\ Len(iterLog[2].results) = 2
  /\ reasoningCalls = 1
  /\ pc = "done"

\* the i-th example of the call taken alone makes the expression fail: it does
\* not parse, its evaluation throws, or its value is no boolean
FailsOn(i) == RawResult(i) \notin {"true", "false"}

\* C11: testJsonata returns exactly one outcome per input example, in input
\* order, for every expression: a parse, evaluation or type failure on one
\* example becomes that example's failed outcome (passed = false, an error, no
\* output) and the other examples are evaluated all the same, each outcome
\* carrying what the expression gives on its own example.
C11_OneOutcomePerExample ==
  evalOutput # None =>
    /\ Len(evalOutput[1]) = Len(evalInput.examples)
    /\ \A i \in 1..Len(evalInput.examples) :
         /\ evalOutput[1][i].example = evalInput.examples[i]
         /\ FailsOn(i) =>
              /\ ~evalOutput[1][i].passed
              /\ evalOutput[1][i].error # None
              /\ evalOutput[1][i].output = None
         /\ ~FailsOn(i) =>
              /\ evalOutput[1][i].error = None
              /\ evalOutput[1][i].output = Some(RawResult(i))

\* the evaluation throws on the first example and the second, evaluated after
\* it, passes
C11_Witness ==
  /\ evalOutput # None
  /\ evalInput.text = TxtCond
  /\ evalInput.examples = <<Ex2, Ex1>>
  /\ evalInput.shouldPass
  /\ Len(evalOutput[1]) = 2
  /\ evalOutput[1][1].error # None
  /\ evalOutput[1][2].passed

\* C12: the outcome list of every emitted record is the outcomes of all
\* positive examples in input order followed by the outcomes of all negative
\* examples in input order: its length is the number of positive plus negative
\* examples and its i-th entry is the outcome of the record's expression on the
\* i-th example of that concatenation, judged by that example's polarity.
C12_PositiveThenNegative ==
  \A k \in 1..Len(written) :
    LET all == trueExamples \o falseExamples
    IN /\ Len(written[k].results) = Len(trueExamples) + Len(falseExamples)
       /\ \A i \in 1..Len(all) :
            /\ written[k].results[i].example = all[i]
            /\ written[k].results[i]
                 = TestOne(written[k].jsonata, all[i], i <= Len(trueExamples))

\* a record over two positive and two negative examples given in opposite
\* orders, with passing and failing outcomes on both sides
C12_Witness ==
  /\ trueExamples = <<Ex1, Ex2>>
  /\ falseExamples = <<Ex2, Ex1>>
  /\ Len(written) >= 1
  /\ Len(written[1].results) = 4
  /\ written[1].results[1].passed
  /\ ~written[1].results[2].passed
  /\ written[1].results[3].passed
  /\ ~written[1].results[4].passed

\* the expression of the call taken alone does not parse
ParseFails == ~JsonataParse(evalInput.text).ok

\* the claim as stated: the error text of a parse failure starts with
\* "Invalid syntax: "
C13_InvalidSyntaxPrefix ==
  (evalOutput # None /\ ParseFails) =>
    \A i \in 1..Len(evalOutput[1]) :
      /\ ~evalOutput[1][i].passed
      /\ evalOutput[1][i].output = None
      /\ evalOutput[1][i].error
           = Some(<<"Invalid syntax: ", JsonataParse(evalInput.text).message>>)

\* C13: an expression that fails to parse yields, for every example, an outcome
\* with passed = false, no output, and an error text equal to
\* "Invalid JSONata syntax: " followed by the parser's details.
C13_ParseFailureOutcome ==
  (evalOutput # None /\ ParseFails) =>
    /\ Len(evalOutput[1]) = Len(evalInput.examples)
    /\ \A i \in 1..Len(evalOutput[1]) :
         /\ ~evalOutput[1][i].passed
         /\ evalOutput[1][i].output = None
         /\ evalOutput[1][i].error
              = Some(<<"Invalid JSONata syntax: ", JsonataParse(evalInput.text).message>>)

\* an unbalanced parenthesis against two negative examples
C13_Witness ==
  /\ evalOutput # None
  /\ evalInput.text = TxtParen
  /\ evalInput.examples = <<Ex1, Ex2>>
  /\ ~evalInput.shouldPass
  /\ evalOutput[1][1].error = Some(<<"Invalid JSONata syntax: ", "S0203">>)
  /\ evalOutput[1][2].error = Some(<<"Invalid JSONata syntax: ", "S0203">>)

\* the evaluation of the expression throws on the i-th example
EvaluationFails(i) == RawResult(i) = "evaluation failure"

\* C14: an expression that parses but fails while being evaluated against an
\* example yields, for that example only, an outcome with passed = false and an
\* error text equal to "Evaluation failed: " followed by the failure details;
\* no other outcome, and in particular no parse failure, carries this prefix.
C14_EvaluationFailureOutcome ==
  evalOutput # None =>
    \A i \in 1..Len(evalInput.examples) :
      /\ EvaluationFails(i) =>
           /\ ~evalOutput[1][i].passed
           /\ evalOutput[1][i].error
                = Some(<<"Evaluation failed: ",
                         JsonataEvaluate(evalInput.text, evalInput.examples[i]).message>>)
      /\ ~EvaluationFails(i) =>
           \/ evalOutput[1][i].error = None
           \/ evalOutput[1][i].error[1][1] # "Evaluation failed: "

\* the expression is true on the first example and throws on the second
C14_Witness ==
  /\ evalOutput # None
  /\ evalInput.text = TxtCond
  /\ evalInput.examples = <<Ex1, Ex2>>
  /\ evalInput.shouldPass
  /\ evalOutput[1][1].passed
  /\ evalOutput[1][1].error = None
  /\ evalOutput[1][2].error = Some(<<"Evaluation failed: ", "T1006">>)

\* C15: an expression that evaluates without failure to a non-boolean value
\* yields an outcome with passed = false and an error text equal to
\* "Expression must return exactly true or false, got: " followed by the
\* value's JSON text.
C15_NonBooleanOutcome ==
  evalOutput # None =>
    \A i \in 1..Len(evalInput.examples) :
      RawResult(i) \notin {"parse failure", "evaluation failure", "true", "false"} =>
        /\ ~evalOutput[1][i].passed
        /\ evalOutput[1][i].output = None
        /\ evalOutput[1][i].error
             = Some(<<"Expression must return exactly true or false, got: ",
                      JsonStringify(RawResult(i))>>)

\* the number 1 on a single positive example
C15_Witness ==
  /\ evalOutput # None
  /\ evalInput.text = TxtNum
  /\ evalInput.examples = <<Ex1>>
  /\ evalInput.shouldPass
  /\ evalOutput[1][1].error
       = Some(<<"Expression must return exactly true or false, got: ", "1">>)

\* the request carries no example at all
EmptyRequest == trueExamples = <<>> /\ falseExamples = <<>>

\* what a run without examples has done at any moment
C16_AtMostOneIteration ==
  EmptyRequest =>
    /\ genCalls <= 1
    /\ reasoningCalls = 0
    /\ Len(written) <= 1
    /\ Len(iterLog) <= 1
    /\ pc \notin {"reasoning"}
    /\ pc = "done" =>
         /\ genCalls = 1
         /\ Len(written) = 1
         /\ written[1].results = <<>>
         /\ streamState = "closed"
    /\ pc = "aborted" => streamError \in {"fault", "cancel"}

\* how a run without examples goes on: whatever candidate comes back, its
\* evaluation is empty and goes to the write without reasoning; the write, on
\* a stream no cancellation has reached, goes to the close; the close to DONE
C16_StraightToDone ==
  EmptyRequest =>
    /\ (pc = "candidate" /\ pc' \notin {"candidate", "aborted"}) =>
         (pc' = "write" /\ allResults' = <<>> /\ llmCalls' = llmCalls)
    /\ (pc = "write" /\ streamState = "open" /\ pc' # "write") =>
         /\ pc' = "close"
         /\ written' = <<IterationRecord(variant, currentJsonata, <<>>, progress)>>
         /\ llmCalls' = llmCalls
    /\ (pc = "close" /\ streamState = "open" /\ pc' # "close") =>
         (pc' = "done" /\ streamState' = "closed")

\* C16: with an empty positive and an empty negative example set the run
\* reaches DONE on the first iteration whatever the LLM returns: exactly one
\* candidate is requested, exactly one record, with an empty outcome list, is
\* emitted, no reasoning is requested, and the stream is closed gracefully
\* (only a failed LLM call or a cancellation ends it otherwise).
C16_EmptySetsDoneAtOnce ==
  [](C16_AtMostOneIteration) /\ [][C16_StraightToDone]_vars

\* the LLM returned no candidate text at all, and the run without examples is
\* DONE with its one record shown by the page
C16_Witness ==
  /\ EmptyRequest
  /\ pc = "done"
  /\ genCalls = 1
  /\ written[1].jsonata = TxtEmpty
  /\ written[1].results = <<>>
  /\ streamState = "closed"
  /\ clientState = "done"
  /\ Len(displayed) = 1

\* the candidate evaluated last came from a response with empty or missing text
LastResponseHadNoText == Len(iterLog) >= 1 /\ iterLog[Len(iterLog)].noText

\* the write of the current iteration's record is accepted
WriteSucceeds == pc = "write" /\ streamState = "open" /\ pc' # "write"

\* the claim as stated: after an empty or missing candidate text the record is
\* emitted and a further candidate is requested
C17_EmptyCandidateGoesOn ==
  [][(LastResponseHadNoText /\ WriteSucceeds)
       => /\ Len(written') = Len(written) + 1
          /\ Generating'
          /\ genCalls' = genCalls + 1]_vars

\* an empty or missing text is evaluated as the empty expression, which fails
\* every example
C17_EvaluatedAsEmpty ==
  \A k \in 1..Len(iterLog) :
    iterLog[k].noText =>
      /\ iterLog[k].jsonata = <<>>
      /\ Len(iterLog[k].results) = Len(trueExamples) + Len(falseExamples)
      /\ \A i \in 1..Len(iterLog[k].results) :
           /\ ~iterLog[k].results[i].passed
           /\ iterLog[k].results[i].error # None

\* its record is emitted and, unless there is no example, the next candidate
\* is requested
C17_EmittedAndGoesOn ==
  (LastResponseHadNoText /\ WriteSucceeds) =>
    /\ written' = Append(written, IterationRecord(variant, <<>>, allResults, progress))
    /\ IF EmptyRequest
         THEN pc' = "close" /\ genCalls' = genCalls
         ELSE Generating' /\ genCalls' = genCalls + 1

\* C17: when the LLM returns an empty or missing candidate text, the candidate
\* becomes the empty string and the run does not fault: the empty candidate is
\* evaluated, every example gets passed = false, the record is emitted, and,
\* when there is at least one example, a further candidate is requested (with
\* no example at all the run ends after that record).
C17_EmptyCandidateTolerated ==
  [](C17_EvaluatedAsEmpty) /\ [][C17_EmittedAndGoesOn]_vars

\* the first response had no text; both examples failed, the record is out and
\* the second candidate is being requested
C17_Witness ==
  /\ Len(iterLog) = 1
  /\ iterLog[1].noText
  /\ Len(iterLog[1].results) = 2
  /\ Len(written) = 1
  /\ written[1].jsonata = <<>>
  /\ genCalls = 2
  /\ pc = "candidate"
  /\ streamError = "none"

RECURSIVE RecordsFrom(_, _, _, _, _, _)
\* the records one run on its own emits, given the responses to its calls from
\* candidate request number `calls` on
RecordsFrom(log, positives, negatives, prog, docs, calls) ==
  IF log = <<>> \/ log[1].call # "candidate" THEN <<>>
  ELSE LET newJsonata == ContentOrEmpty(log[1].response)
           withDocs == IF StoresDocumentation("progress", calls)
                         THEN [prog EXCEPT !.documentation = Some(docs)]
                         ELSE prog
           results == EvaluateAll(newJsonata, positives, negatives)
           updated == ProgressAfterEval("progress", withDocs, newJsonata, results)
           reasons == ReasoningWanted("progress", updated, results)
           answered == Len(log) >= 2 /\ log[2].call = "reasoning"
           final == IF reasons
                      THEN [updated EXCEPT !.reasoning = Some(ContentOrEmpty(log[2].response))]
                      ELSE updated
           rest == IF reasons THEN SubSeq(log, 3, Len(log)) ELSE Tail(log)
       IN IF reasons /\ ~answered THEN <<>>
          ELSE <<IterationRecord("progress", newJsonata, results, final)>>
                 \o (IF LoopEnds(results) THEN <<>>
                     ELSE RecordsFrom(rest, positives, negatives, final, docs, calls + 1))

\* the records a run emits when it is the only one, given its request and the
\* responses to its own calls in order
RecordsOf(request, log) ==
  IF log = <<>> \/ log[1].call # "doc" THEN <<>>
  ELSE RecordsFrom(Tail(log), request.trueExamples, request.falseExamples,
                   InitialProgress("progress"), SelectedDocs(log[1].response), 1)

\* what each run has written is what its own request and responses give
C18_OwnRecordsOnly ==
  \A r \in Runs :
    LET expected == RecordsOf(RunRequests[r], runs[r].log)
    IN /\ Len(runs[r].written) <= Len(expected)
       /\ runs[r].written = SubSeq(expected, 1, Len(runs[r].written))

\* a step in which a run does nothing leaves its current expression and
\* learning state as they were
C18_LeftAlone ==
  \A r \in Runs : runs'[r] = runs[r] => cells'[r] = cells[r]

\* C18: two synthesis runs executing concurrently in the same process, under
\* any interleaving of their steps, never read or write each other's current
\* expression or learning state: the records each run emits depend only on its
\* own request and the LLM responses given to its own calls.
C18_RunsIndependent ==
  [](C18_OwnRecordsOnly) /\ [][C18_LeftAlone]_vars

\* both runs are in their second iteration, each has emitted its first record,
\* and each holds its own current expression
C18_Witness ==
  /\ runs[1].pc = "write"
  /\ Len(runs[1].written) = 1
  /\ Len(runs[1].log) = 5
  /\ runs[2].pc = "candidate"
  /\ Len(runs[2].written) = 1
  /\ cells[1].currentJsonata = TxtEmpty
  /\ cells[2].currentJsonata = TxtEq

\* d is n with exactly the names that have no document left out, in n's order
KeptInOrder(d, n) ==
  \E f \in [1..Len(d) -> 1..Len(n)] :
    /\ \A i, j \in 1..Len(d) : i < j => f[i] < f[j]
    /\ \A i \in 1..Len(d) : d[i] = n[f[i]]
    /\ \A j \in 1..Len(n) : (n[j] \in ExistingDocs) <=> (\E i \in 1..Len(d) : f[i] = j)

\* C19: when no selection is pinned, the selection returned by
\* loadRelevantDocumentation is the list of names proposed by the LLM with
\* every name that has no existing document removed, order preserved; if the
\* response is no list of names the selection is empty, and the call fails
\* only when the request itself does, never on a response.
C19_SelectionIsFilteredList ==
  docInput = None =>
    /\ docCall.pc = "failed" => docCall.response = None
    /\ docCall.pc = "returned" =>
         /\ docCall.requests = 1
         /\ docCall.response # None
         /\ IF docCall.response[1].kind = "list"
              THEN KeptInOrder(docCall.documentation, docCall.response[1].names)
              ELSE docCall.documentation = <<>>

\* the LLM proposed a name without a document between two with one
C19_Witness ==
  /\ docInput = None
  /\ docCall.pc = "returned"
  /\ docCall.response = Some([kind |-> "list", names |-> <<"simple", "bogus", "regex">>])
  /\ docCall.documentation = <<"simple", "regex">>

\* C20: loadRelevantDocumentation called with an existing selection, including
\* an empty list, makes no selection request to the LLM and returns that same
\* list unchanged as its selection.
C20_PinnedSelectionReused ==
  docInput # None =>
    /\ docCall.requests = 0
    /\ docCall.response = None
    /\ docCall.pc \in {"idle", "returned"}
    /\ docCall.pc = "returned" => docCall.documentation = docInput[1]

\* the call with the empty list as its selection has returned it
C20_Witness ==
  /\ docInput = Some(<<>>)
  /\ docCall.pc = "returned"
  /\ docCall.requests = 0
  /\ docCall.documentation = <<>>

\* t has the form identifier(.identifier)+
IsDottedPath(t) ==
  /\ Len(t) >= 3
  /\ \A i \in 1..Len(t) : t[i] \in IdentChars \cup {"."}
  /\ t[1] # "." /\ t[Len(t)] # "."
  /\ \A i \in 1..(Len(t) - 1) : ~(t[i] = "." /\ t[i + 1] = ".")
  /\ \E i \in 1..Len(t) : t[i] = "."

\* t has the form $identifier(
IsFunctionToken(t) ==
  /\ Len(t) >= 3
  /\ t[1] = "$" /\ t[Len(t)] = "("
  /\ \A i \in 2..(Len(t) - 1) : t[i] \in IdentChars

\* the places <<i, j>> where the text holds a dotted path
PathPieces(s) ==
  {ij \in (1..Len(s)) \X (1..Len(s)) :
     ij[1] <= ij[2] /\ IsDottedPath(SubSeq(s, ij[1], ij[2]))}

\* the places <<i, j>> where the text holds a function token
TokenPieces(s) ==
  {ij \in (1..Len(s)) \X (1..Len(s)) :
     ij[1] <= ij[2] /\ IsFunctionToken(SubSeq(s, ij[1], ij[2]))}

\* the first piece: the one that starts leftmost and, from there, reaches
\* farthest
FirstPiece(S) ==
  CHOOSE ij \in S : \A kl \in S : ij[1] < kl[1] \/ (ij[1] = kl[1] /\ ij[2] >= kl[2])

\* C21: extractPatternFromJsonata returns the first dotted path
\* identifier(.identifier)+ found in the expression text if there is one;
\* otherwise the first function-invocation token $identifier( with the trailing
\* '(' removed; otherwise nothing.  A dotted path anywhere in the text takes
\* precedence over a function token that occurs earlier in the text.
C21_PathThenFunctionThenNothing ==
  patCall # NoCall /\ patCall.result # None =>
    LET s == patCall.text
        paths == PathPieces(s)
        tokens == TokenPieces(s)
    IN patCall.result[1] =
         (IF paths # {}
            THEN Some(SubSeq(s, FirstPiece(paths)[1], FirstPiece(paths)[2]))
          ELSE IF tokens # {}
            THEN Some(SubSeq(s, FirstPiece(tokens)[1], FirstPiece(tokens)[2] - 1))
          ELSE None)

\* "$a(a.a": the function token comes first and the path is returned
C21_Witness ==
  /\ patCall # NoCall
  /\ patCall.text = <<"$", "a", "(", "a", ".", "a">>
  /\ patCall.result = Some(Some(<<"a", ".", "a">>))

CalledTwice == repCall # NoCall /\ repCall.pc = "done"

GenSucceeded ==
  genCall # NoCall /\ genCall.result # None /\ genCall.result[1].status = 200

\* the examples of a list all pass validateTestExample
AllValid(examples) ==
  examples # None =>
    \A i \in 1..Len(examples[1]) :
      validateTestExample(examples[1][i], genCall.jsonata, genCall.output).isValid

\* C24: every example in the positive and the negative example set returned
\* by the example-generation endpoint produced a non-null, non-empty result
\* when the given expression was applied to it; a response containing an
\* example that fails this check is never returned as a success.
C24_ReturnedExamplesAllValid ==
  GenSucceeded =>
    /\ AllValid(genCall.result[1].trueExamples)
    /\ AllValid(genCall.result[1].falseExamples)

\* C29: validateTestExample reports an example invalid exactly when applying
\* the expression to it throws or yields undefined, null, an empty array or an
\* empty object; every other result, including false, 0 and the empty string,
\* is reported valid together with that result as output.
C29_InvalidExactlyWhenThrowsOrEmpty ==
  valCall # NoCall /\ valCall.result # None =>
    LET parsed == JsonataParse(valCall.jsonataExpr)
        evaluated == JsonataEvaluate(valCall.jsonataExpr, valCall.example)
        throws == ~parsed.ok \/ ~evaluated.ok
        empty == evaluated.value \in {"undefined", "null", "[]", "{}"}
    IN /\ ~valCall.result[1].isValid <=> (throws \/ empty)
       /\ valCall.result[1].isValid => valCall.result[1].output = evaluated.value

\* the empty string is a valid result
C29_Witness ==
  /\ valCall # NoCall
  /\ valCall.jsonataExpr = TxtBlank
  /\ valCall.result = Some([isValid |-> TRUE, output |-> "''"])

\* C25: when the user cancels from the page, the client treats the
\* cancellation as a normal end and not as an error: no error message is set,
\* the loading flag and the abort controller are cleared, and no iteration is
\* appended to the displayed list by the cancellation or after it.
C25_CancelIsNormalEnd ==
  /\ [](clientState = "cancelled" =>
          ~clientError /\ ~isAgenticLoading /\ ~agenticController)
  /\ [][clientState' = "cancelled" => displayed' = displayed]_vars

\* cancelled with one record displayed and a second one written and never shown
C25_Witness ==
  /\ clientState = "cancelled"
  /\ Len(displayed) = 1
  /\ Len(written) = 2

\* C26: the reasoning text produced in iteration k, an iteration with a failed
\* outcome, is the reasoning handed to the generateNextJsonata call for
\* iteration k+1 and the reasoning held in the learning state for as long as
\* that call is pending: nothing overwrites or clears it in between.
C26_ReasoningReachesNextCandidate ==
  /\ \A k \in 2..Len(genLog) :
       iterLog[k - 1].reasoningCalls = 1 =>
         /\ iterLog[k - 1].reasoning # None
         /\ genLog[k].reasoning = iterLog[k - 1].reasoning
  /\ Generating /\ genCalls >= 2 /\ iterLog[genCalls - 1].reasoningCalls = 1 =>
       progress.reasoning = iterLog[genCalls - 1].reasoning

\* the second candidate is being generated with the text the reasoning request
\* of the first iteration returned
C26_Witness ==
  /\ Generating
  /\ Len(genLog) = 2
  /\ iterLog[1].reasoning \notin {None, Some(<<>>)}
  /\ genLog[2].reasoning = iterLog[1].reasoning

\* C27 as stated: the prior-outcomes argument of each candidate-generation
\* call is exactly the outcome list, error texts included, of the immediately
\* preceding emitted iteration, and the empty list for the first call.
C27_PriorOutcomesArePrecedingRecord ==
  \A k \in 1..Len(genLog) :
    genLog[k].previousResults = Some(IF k = 1 THEN <<>> ELSE written[k - 1].results)

\* C28: the loop never re-emits an iteration without obtaining a new candidate
\* in between: the k-th emitted record carries the k-th candidate the LLM
\* returned and its outcomes, and a write adds one record.  So two consecutive
\* records carry the same expression and outcome list only if the LLM
\* returned, for the later iteration, the candidate of the previous one.
C28_OneRecordPerCandidate ==
  /\ [](/\ Len(written) <= Len(iterLog)
        /\ \A k \in 1..Len(written) :
             /\ written[k].jsonata = iterLog[k].jsonata
             /\ written[k].results = iterLog[k].results)
  /\ [][written' # written =>
          /\ Len(written') = Len(written) + 1
          /\ SubSeq(written', 1, Len(written)) = written
          /\ Len(iterLog) = Len(written')]_vars

\* two records with the same expression and outcomes, the LLM having returned
\* the same candidate twice
C28_Witness ==
  /\ Len(written) = 2
  /\ written[1].jsonata = written[2].jsonata
  /\ written[1].results = written[2].results
  /\ iterLog[1].jsonata = iterLog[2].jsonata

\* C30: every outcome of testJsonata has exactly one of output and error: the
\* output is present, and is the boolean the evaluation gave, exactly when the
\* expression parsed and evaluated to a boolean, and the error is present
\* otherwise; a boolean of the wrong polarity gives passed = false with the
\* output and no error; passed = true implies that the error is absent.
C30_OutputOrErrorNeverBoth ==
  evalOutput # None =>
    \A i \in 1..Len(evalOutput[1]) :
      LET outcome == evalOutput[1][i]
          boolean == RawResult(i) \in {"true", "false"}
          wanted == IF evalInput.shouldPass THEN "true" ELSE "false"
      IN /\ (outcome.output # None) # (outcome.error # None)
         /\ outcome.output # None <=> boolean
         /\ boolean => outcome.output = Some(RawResult(i))
         /\ (boolean /\ RawResult(i) # wanted) =>
              ~outcome.passed /\ outcome.output # None /\ outcome.error = None
         /\ outcome.passed => outcome.error = None

\* a positive example on which the expression gives false: not passed, the
\* output false and no error; next to it an example that passes
C30_Witness ==
  /\ evalOutput # None
  /\ evalInput.text = TxtEq
  /\ evalInput.shouldPass
  /\ evalInput.examples = <<Ex2, Ex1>>
  /\ evalOutput[1][1] = [example |-> Ex2, passed |-> FALSE, output |-> Some("false"),
                         error |-> None]
  /\ evalOutput[1][2].passed

\* every outcome of the last record written passed
LastRecordAllPassed(w) ==
  /\ Len(w) >= 1
  /\ \A i \in 1..Len(w[Len(w)].results) : w[Len(w)].results[i].passed

\* what holds once the background task has ended
C31_EndStates ==
  /\ pc = "done" => streamState = "closed" /\ LastRecordAllPassed(written)
  /\ pc = "aborted" => streamState = "errored"
  /\ streamState = "closed" => pc = "done"

\* writer.close is reached by the write of an all-pass record only, the close
\* itself writes nothing, and nothing moves after the close or the abort
C31_EndSteps ==
  /\ (pc # "close" /\ pc' = "close") =>
       /\ pc = "write"
       /\ written' = Append(written, written'[Len(written')])
       /\ LastRecordAllPassed(written')
  /\ pc = "close" => pc' \in {"close", "done", "aborted"} /\ written' = written
  /\ (streamState # "closed" /\ streamState' = "closed") => pc = "close" /\ pc' = "done"
  /\ pc \in Terminal =>
       pc' = pc /\ written' = written /\ streamState' = streamState

\* C31: the output stream is closed gracefully at most once per run and only
\* directly after a record whose outcomes all passed has been written; at
\* least one record is written before any graceful close, a run that ends by
\* fault or failed write ends with an abort instead, and no record is written
\* after the close or the abort.
C31_ClosedOnceAfterAllPass ==
  [](C31_EndStates) /\ [][C31_EndSteps]_vars

\* a failing record, then an all-pass record, then the graceful close
C31_Witness ==
  /\ pc = "done"
  /\ streamState = "closed"
  /\ Len(written) = 2
  /\ \E i \in 1..Len(written[1].results) : ~written[1].results[i].passed

\* the emitted records that contain a failed outcome
FailingRecords ==
  {k \in 1..Len(written) : \E i \in 1..Len(written[k].results) : ~written[k].results[i].passed}

\* C32: at every moment of a run the number of candidate-generation calls
\* started is equal to, or exactly one more than, the number of records
\* emitted; when the run reaches DONE the two are equal, and the number of
\* reasoning calls made equals the number of emitted records that contain a
\* failed outcome.
C32_CallsAndRecordsInStep ==
  /\ genCalls \in {Len(written), Len(written) + 1}
  /\ pc = "done" =>
       /\ genCalls = Len(written)
       /\ reasoningCalls = Cardinality(FailingRecords)

\* done after a failing and a passing record: two calls, two records, one
\* reasoning call
C32_Witness ==
  /\ pc = "done"
  /\ genCalls = 2
  /\ Len(written) = 2
  /\ reasoningCalls = 1
  /\ FailingRecords = {1}

\* t is s without the whitespace at its two ends
IsTrimmed(t, s) ==
  /\ t = <<>> \/ (t[1] \notin Whitespace /\ t[Len(t)] \notin Whitespace)
  /\ \E i \in 0..Len(s) :
       /\ i + Len(t) <= Len(s)
       /\ \A j \in 1..Len(t) : s[i + j] = t[j]
       /\ \A j \in 1..Len(s) : (j <= i \/ j > i + Len(t)) => s[j] \in Whitespace

\* t is what some response of the LLM gives: its trimmed text, or the empty
\* string when there is no text
IsCandidateText(t) ==
  \E content \in CandidateResponses :
    IF content = NoContent THEN t = <<>> ELSE IsTrimmed(t, content[1])

\* C33: the caller's initial expression is never itself evaluated or emitted:
\* the expression of every evaluated iteration and of every emitted record is
\* the trimmed text of an LLM response (or the empty string when the response
\* is empty), and the initial expression is used only as the input of the
\* first candidate-generation call, each later call being given the
\* expression of the record just written.
C33_InitialExpressionOnlyFeedsFirstCall ==
  /\ \A k \in 1..Len(iterLog) :
       IsCandidateText(iterLog[k].jsonata) /\ iterLog[k].jsonata # initialJsonata
  /\ \A k \in 1..Len(written) :
       IsCandidateText(written[k].jsonata) /\ written[k].jsonata # initialJsonata
  /\ \A k \in 1..Len(genLog) :
       genLog[k].currentJsonata = IF k = 1 THEN initialJsonata ELSE written[k - 1].jsonata

\* the first record carries the trimmed response "a=1", not the caller's
\* "true", which the first call was given
C33_Witness ==
  /\ Len(written) >= 1
  /\ written[1].jsonata = TxtEq
  /\ initialJsonata = TxtTrue
  /\ genLog[1].currentJsonata = TxtTrue

\* the reasoning of the learning state changes only when generateReasoning
\* returns, in an iteration with a failed outcome
C34_ChangedOnlyByFailingIteration ==
  progress'.reasoning # progress.reasoning =>
    /\ pc = "reasoning"
    /\ \E i \in 1..Len(allResults) : ~allResults[i].passed
    /\ progress'.reasoning = iterLog'[Len(iterLog')].reasoning

\* an all-pass record carries the reasoning of the iteration before it, which
\* failed, or the initial value (absent, or the empty text of the
\* LearningSummary variant) when it is the first record
C34_AllPassRecordCarriesLastReasoning ==
  \A k \in 1..Len(written) :
    (\A i \in 1..Len(written[k].results) : written[k].results[i].passed) =>
      written[k].progress.reasoning =
        IF k = 1 THEN InitialProgress(variant).reasoning ELSE iterLog[k - 1].reasoning

\* C34: the reasoning held in the learning state changes only in an iteration
\* that has a failed outcome and is left unchanged by an all-pass iteration;
\* the final all-pass record therefore carries the reasoning generated for the
\* most recent failing iteration (or no reasoning if the first candidate
\* passed), never a freshly generated or cleared value.
C34_ReasoningKeptByAllPass ==
  [](C34_AllPassRecordCarriesLastReasoning) /\ [][C34_ChangedOnlyByFailingIteration]_vars

\* the second record is all-pass and carries the text generated for the first
C34_Witness ==
  /\ Len(written) = 2
  /\ \A i \in 1..Len(written[2].results) : written[2].results[i].passed
  /\ iterLog[1].reasoning \notin {None, Some(<<>>)}
  /\ written[2].progress.reasoning = iterLog[1].reasoning

\* the outcomes of the current iteration hold a pass and a failure
MixedOutcomes ==
  /\ \E i \in 1..Len(allResults) : allResults[i].passed
  /\ \E i \in 1..Len(allResults) : ~allResults[i].passed

\* C35: every pattern set of the learning state has at most one element; in
\* the variant that tracks both working and failed patterns, an iteration with
\* both a passing and a failing outcome puts the same pattern in both sets, so
\* the two sets are equal rather than disjoint.
C35_PatternSetsAtMostOne ==
  /\ Len(progress.successfulPatterns) <= 1
  /\ Len(progress.failedPatterns) <= 1
  /\ \A k \in 1..Len(written) : Len(written[k].progress.successfulPatterns) <= 1
  /\ (variant = "summary" /\ Evaluated /\ MixedOutcomes) =>
       progress.successfulPatterns = progress.failedPatterns

\* "$not(a=1)" passes one example and fails another: "$not" is the one working
\* pattern and the one failed pattern
C35_Witness ==
  /\ variant = "summary"
  /\ Evaluated
  /\ MixedOutcomes
  /\ currentJsonata = TxtNot
  /\ Len(allResults) >= 3
  /\ progress.successfulPatterns = <<<<"$", "n", "o", "t">>>>
  /\ progress.failedPatterns = <<<<"$", "n", "o", "t">>>>

\* C36: the client's displayed iteration list is, in order and one entry per
\* record, the sequence of records the server has written (those that have
\* arrived so far, and all of them once the stream has ended), and no error is
\* shown, however the transport groups the written bytes into chunks.
C36_DisplayedIsWrittenHoweverChunked ==
  netCall # NoCall =>
    /\ ~netCall.clientError
    /\ Len(netCall.displayed) <= netCall.written
    /\ \A k \in 1..Len(netCall.displayed) : netCall.displayed[k] = ToString(k)
    /\ netCall.clientState = "done" => Len(netCall.displayed) = netCall.written

\* the validating endpoint holds a response whose positive examples all pass
\* validateTestExample
PositivesValidated ==
  /\ genCall.response # None
  /\ genCall.response[1].kind \in {"lists", "truesOnly"}
  /\ AllValid(Some(genCall.response[1].trueExamples))

\* the answer of the endpoint is the examples of the response it holds
AnswersWithResponse ==
  /\ genCall.pc = "done"
  /\ genCall.result # None
  /\ genCall.result[1].status = 200
  /\ genCall.result[1].trueExamples = Some(genCall.response[1].trueExamples)
  /\ genCall.response[1].kind = "lists"
  /\ genCall.result[1].falseExamples = Some(genCall.response[1].falseExamples)

\* at most maxAttempts calls of the LLM, and the request is over by the last
C37_CallsBounded ==
  genCall # NoCall /\ genCall.route = "validating" =>
    /\ genCall.calls <= maxAttempts
    /\ genCall.attempts <= genCall.calls
    /\ genCall.calls = maxAttempts => genCall.pc = "done"
    /\ genCall.pc = "done" <=> genCall.result # None

\* maxAttempts attempts that failed validation: status 500 and no examples
C37_ErrorAfterLastAttempt ==
  genCall # NoCall /\ genCall.route = "validating" /\ genCall.attempts = maxAttempts =>
    /\ genCall.result # None
    /\ genCall.result[1].status = 500
    /\ genCall.result[1].error # None
    /\ genCall.result[1].trueExamples = None
    /\ genCall.result[1].falseExamples = None

\* C37: the validating example-generation endpoint calls the LLM at most 3
\* times per request and always terminates: it stops at the first attempt
\* whose positive examples all validate and returns that attempt's examples,
\* and when all 3 attempts fail validation it answers with status 500 and
\* returns no examples.
C37_StopsAtFirstValidatedAttempt ==
  /\ C37_CallsBounded
  /\ C37_ErrorAfterLastAttempt
  /\ genCall # NoCall /\ genCall.route = "validating" /\ PositivesValidated =>
       AnswersWithResponse /\ genCall.calls = genCall.attempts + 1

====
